---- MODULE Spec2Model ----
(***************************************************************************)
(* Verification model of linear-bridge: the trigger dispatch engine (dedup *)
(* guard, label-add detector, matchTriggers, the Linear webhook handler),  *)
(* the permission policy (decidePermissionReply) and the agent session     *)
(* runner (runSandboxAgent).                                               *)
(*                                                                         *)
(* Text is modelled as a sequence of one-character strings so that trim,   *)
(* lower-casing and the regular expressions of the triggers are computed.  *)
(* An optional value (undefined | v) is the sequence <<>> or <<v>>.        *)
(***************************************************************************)
EXTENDS Naturals, Integers, Sequences, FiniteSets, TLC

VARIABLES
  \* ---- trigger matching (src/src/triggers) ----
  mRules,        \* config.linear.triggers handed to matchTriggers
  mCtx,          \* the TriggerContext handed to matchTriggers
  mHits,         \* <<>> or <<h>>: h[i] = evaluator(mRules[i]).matches(mRules[i], mCtx)
  mResult,       \* <<>> (not called yet) or <<r>>: r the value matchTriggers returned
  \* ---- Linear webhook handler (src/src/types.ts) ----
  now,             \* Date.now(), in ms
  processedEvents, \* the dedup Map: key -> time it was marked processed
  requests,        \* the webhook requests received so far, each with its position
  checks,          \* history of the dedup checks, in the order they were made
  runs,            \* the background workflows started (process*Request calls)
  \* ---- permission policy (src/src/sandbox.ts) ----
  pPolicy,       \* options.permissionPolicy ?? 'default'
  pData,         \* the PermissionEventData of a permission.requested event
  pReply,        \* <<>> or <<reply>>: what decidePermissionReply returned
  \* ---- one invocation of runSandboxAgent (src/src/sandbox.ts) ----
  rLog,          \* the events of the session, in the order the runtime numbers them
  rOptions,      \* the options argument
  run,           \* the locals, the position and the calls of the invocation
  \* ---- the dedupKey expression of webhookHandler (src/src/types.ts) ----
  kInput,        \* the linear-delivery header and the payload fields the key is built from
  kKey,          \* <<>> or <<key>>: the dedupKey computed for kInput
  \* ---- configuration load (config/loader.ts, config/validator.ts) ----
  cTriggers,     \* linear.triggers of the parsed configuration file
  cConfig,       \* cachedConfig: <<>> or <<c>>, c the loaded triggers or the error thrown
  \* ---- GitHub webhook handler (src/unnamed/part_005) ----
  gConfig,       \* config.github and config.worktree.branchTemplate
  gReq,          \* the request: headers, payload, and whether its delivery id was seen
  gh,            \* the position of the handler, its response and the git calls it made
  \* ---- background workflows started by the Linear webhook (src/src/types.ts) ----
  wf,            \* per started workflow: its issue, its position and its worktree path
  \* ---- the client cache of getClient (src/src/sandbox.ts) ----
  gc,            \* client, cachedKey, the clients created and the callers of getClient
  \* ---- rate limiter (src/unnamed/part_006) ----
  rl             \* Date.now(), the options, the state Map and the requests answered

matchVars == <<mRules, mCtx, mHits, mResult>>

webhookVars == <<now, processedEvents, requests, checks, runs>>

permVars == <<pPolicy, pData, pReply>>

keyVars == <<kInput, kKey>>

vars == <<mRules, mCtx, mHits, mResult, now, processedEvents, requests, checks, runs,
          pPolicy, pData, pReply, rLog, rOptions, run, kInput, kKey,
          cTriggers, cConfig, gConfig, gReq, gh, wf, gc, rl>>

clientVars == <<gc>>

rateVars == <<rl>>

worktreeVars == <<wf>>

githubVars == <<gConfig, gReq, gh>>

configVars == <<cTriggers, cConfig>>

\* the variables of the entry points modelled on their own
extVars == <<keyVars, configVars, githubVars, worktreeVars, clientVars, rateVars>>

runVars == <<rLog, rOptions, run>>

\* what the steps of one part leave alone

None == <<>>
Some(v) == <<v>>
IsSome(o) == o # <<>>
Get(o) == o[1]

\* ------------------------------------------------------------------ text

IsSpace(c) == c \in {" ", "\n", "\t"}

UpperCaseLetters ==
  <<"A", "B", "C", "D", "E", "F", "G", "H", "I", "J", "K", "L", "M",
    "N", "O", "P", "Q", "R", "S", "T", "U", "V", "W", "X", "Y", "Z">>

LowerCaseLetters ==
  <<"a", "b", "c", "d", "e", "f", "g", "h", "i", "j", "k", "l", "m",
    "n", "o", "p", "q", "r", "s", "t", "u", "v", "w", "x", "y", "z">>

Digits == {"0", "1", "2", "3", "4", "5", "6", "7", "8", "9"}

\* \w of a regular expression
IsWordChar(c) ==
  \/ \E i \in 1..26 : c = UpperCaseLetters[i] \/ c = LowerCaseLetters[i]
  \/ c \in Digits
  \/ c = "_"

LowerChar(c) ==
  IF \E i \in 1..26 : c = UpperCaseLetters[i]
  THEN LowerCaseLetters[CHOOSE i \in 1..26 : c = UpperCaseLetters[i]]
  ELSE c

ToLowerCase(s) == [i \in 1..Len(s) |-> LowerChar(s[i])]

RECURSIVE TrimStart(_)
TrimStart(s) == IF s # <<>> /\ IsSpace(Head(s)) THEN TrimStart(Tail(s)) ELSE s

RECURSIVE TrimEnd(_)
TrimEnd(s) ==
  IF s # <<>> /\ IsSpace(s[Len(s)]) THEN TrimEnd(SubSeq(s, 1, Len(s) - 1)) ELSE s

Trim(s) == TrimEnd(TrimStart(s))

Includes(seq, v) == \E i \in 1..Len(seq) : seq[i] = v

\* \b after position i of s (1 <= i <= Len(s)): exactly one side is a word character
WordBoundaryAfter(s, i) ==
  IsWordChar(s[i]) # (i + 1 <= Len(s) /\ IsWordChar(s[i + 1]))

\* pattern p matched case-insensitively at s[from..], followed by \b
MatchesAtThenBoundary(s, from, p) ==
  /\ p # <<>>
  /\ from + Len(p) - 1 <= Len(s)
  /\ ToLowerCase(SubSeq(s, from, from + Len(p) - 1)) = ToLowerCase(p)
  /\ WordBoundaryAfter(s, from + Len(p) - 1)

\* ---------------------------------------------------------- triggers

\* first element of seq satisfying the label-name test, as find() does
RECURSIVE FindLabelByName(_, _)
FindLabelByName(detailed, wanted) ==
  IF detailed = <<>> THEN None
  ELSE IF ToLowerCase(Trim(Head(detailed).name)) = wanted THEN Some(Head(detailed))
  ELSE FindLabelByName(Tail(detailed), wanted)

LabelIdsOf(detailed) == [i \in 1..Len(detailed) |-> detailed[i].id]

CurrentLabelIds(issue) ==
  IF IsSome(issue.labelIds) THEN Get(issue.labelIds)
  ELSE IF IsSome(issue.labelsDetailed) THEN LabelIdsOf(Get(issue.labelsDetailed))
  ELSE <<>>

WantedLabelId(wanted, issue) ==
  IF IsSome(issue.labelsDetailed)
  THEN LET hit == FindLabelByName(Get(issue.labelsDetailed), wanted)
       IN IF IsSome(hit) THEN Some(Get(hit).id) ELSE None
  ELSE None

\* variant: a missing previous-label snapshot is read as "no labels before"
LabelAddedInUpdate_GuessOnMissing(wanted, issue) ==
  LET previousLabelIds == IF IsSome(issue.updatedFromLabelIds)
                          THEN Get(issue.updatedFromLabelIds) ELSE <<>>
      labelId == WantedLabelId(wanted, issue)
  IN IsSome(labelId) /\ Get(labelId) # ""
     /\ ~Includes(previousLabelIds, Get(labelId))
     /\ Includes(CurrentLabelIds(issue), Get(labelId))

LabelAddedInUpdate(wanted, issue) ==
  IF ~IsSome(issue.updatedFromLabelIds) THEN FALSE
  ELSE LET previousLabelIds == Get(issue.updatedFromLabelIds)
           currentLabelIds == CurrentLabelIds(issue)
           labelId == WantedLabelId(wanted, issue)
       IN IF ~IsSome(labelId) \/ Get(labelId) = "" THEN FALSE
          ELSE ~Includes(previousLabelIds, Get(labelId))
               /\ Includes(currentLabelIds, Get(labelId))

LabelTriggerMatches(trigger, context) ==
  IF context.eventType # "Issue" THEN FALSE
  ELSE LET wanted == ToLowerCase(Trim(trigger.value))
           labels == IF IsSome(context.issue.labels) THEN Get(context.issue.labels) ELSE <<>>
           hasLabel == \E i \in 1..Len(labels) : ToLowerCase(Trim(labels[i])) = wanted
       IN IF wanted = <<>> THEN FALSE
          ELSE IF ~hasLabel THEN FALSE
          ELSE IF context.action # "update" THEN TRUE
          ELSE LabelAddedInUpdate(wanted, context.issue)

HashtagTriggerMatches(trigger, context) ==
  IF context.eventType # "Comment" \/ ~IsSome(context.comment) THEN FALSE
  ELSE LET value == IF trigger.value # <<>> /\ Head(trigger.value) = "#"
                    THEN trigger.value ELSE <<"#">> \o trigger.value
           body == Get(context.comment).body
       IN \E from \in 1..Len(body) : MatchesAtThenBoundary(body, from, value)

MentionTriggerMatches(trigger, context) ==
  IF context.eventType # "Comment" \/ ~IsSome(context.comment) THEN FALSE
  ELSE LET wanted == Trim(trigger.value)
           body == Get(context.comment).body
           \* ^\s* : wanted starts with a non-space, so \s* takes all leading spaces
           from == Len(body) - Len(TrimStart(body)) + 1
       IN IF wanted = <<>> THEN FALSE
          ELSE MatchesAtThenBoundary(body, from, wanted)

\* pluginRegistry.getTrigger(trigger.type).matches(trigger, context)
EvaluatorMatches(trigger, context) ==
  CASE trigger.type = "label" -> LabelTriggerMatches(trigger, context)
    [] trigger.type = "hashtag" -> HashtagTriggerMatches(trigger, context)
    [] trigger.type = "mention" -> MentionTriggerMatches(trigger, context)

\* the filter at the head of the loop: a falsy `on` (absent) filters nothing
SkippedByOn(trigger, action) ==
  IsSome(trigger.on) /\ ~Includes(Get(trigger.on), action)

\* variant: keeps scanning after a match, so the last matching rule wins
RECURSIVE matchTriggers_LastMatch(_, _)
matchTriggers_LastMatch(triggers, context) ==
  IF triggers = <<>> THEN None
  ELSE LET trigger == Head(triggers)
           later == matchTriggers_LastMatch(Tail(triggers), context)
       IN IF IsSome(later) THEN later
          ELSE IF ~SkippedByOn(trigger, context.action) /\ EvaluatorMatches(trigger, context)
          THEN Some([trigger |-> trigger, action |-> trigger.action])
          ELSE None

RECURSIVE matchTriggers(_, _)
matchTriggers(triggers, context) ==
  IF triggers = <<>> THEN None
  ELSE LET trigger == Head(triggers)
       IN IF SkippedByOn(trigger, context.action)
          THEN matchTriggers(Tail(triggers), context)
          ELSE IF EvaluatorMatches(trigger, context)
          THEN Some([trigger |-> trigger, action |-> trigger.action])
          ELSE matchTriggers(Tail(triggers), context)

\* ------------------------------------------------ inputs of the matcher

MaxRules == 2

Str_a == <<"a">>
Str_A_padded == <<" ", "A">>
Str_b == <<"b">>

RulePool ==
  { [type |-> "label", value |-> Str_a, action |-> "quick", agent |-> None,
     on |-> Some(<<"create", "update">>)],
    [type |-> "label", value |-> Str_a, action |-> "context", agent |-> None,
     on |-> None],
    [type |-> "label", value |-> Str_A_padded, action |-> "plan", agent |-> None,
     on |-> Some(<<"update">>)],
    [type |-> "label", value |-> Str_b, action |-> "review", agent |-> None,
     on |-> Some(<<"create", "update">>)],
    [type |-> "hashtag", value |-> Str_a, action |-> "context", agent |-> None,
     on |-> None],
    [type |-> "mention", value |-> <<"@", "a">>, action |-> "reply",
     agent |-> Some("claude"), on |-> Some(<<"create">>)] }

RECURSIVE SeqsUpTo(_, _)
SeqsUpTo(S, n) ==
  IF n = 0 THEN {<<>>}
  ELSE LET shorter == SeqsUpTo(S, n - 1)
       IN shorter \cup {Append(q, e) : q \in {r \in shorter : Len(r) = n - 1}, e \in S}

RuleLists == SeqsUpTo(RulePool, MaxRules) \ {<<>>}

\* data.labels of an Issue payload
IssueLabelStates ==
  { None,
    Some(<<[id |-> "l1", name |-> Str_a]>>),
    Some(<<[id |-> "l1", name |-> Str_A_padded], [id |-> "l2", name |-> Str_b]>>) }

IssueLabelIdStates == {None, Some(<<"l1">>), Some(<<"l1", "l2">>)}

UpdatedFromStates == {None, Some(<<>>), Some(<<"l1">>), Some(<<"l2">>)}

Operations == {"create", "update", "remove"}

CommentBodies ==
  { <<"@", "a", " ", "b">>, <<" ", "@", "A">>, <<"@", "a", "b">>,
    <<"b", " ", "#", "a">>, <<"#", "a", "b">>, <<"b">> }

\* normalizeLabels
normalizeLabels(labels) ==
  IF IsSome(labels) THEN [i \in 1..Len(Get(labels)) |-> Get(labels)[i].name] ELSE <<>>

\* the TriggerContext webhookHandler builds for an Issue event
IssueContext(action, issueId, labels, labelIds, updatedFromLabelIds) ==
  [ eventType |-> "Issue", action |-> action,
    issue |-> [ id |-> issueId,
                labels |-> Some(normalizeLabels(labels)),
                labelsDetailed |-> labels,
                labelIds |-> IF IsSome(labelIds) THEN labelIds
                             ELSE IF IsSome(labels) THEN Some(LabelIdsOf(Get(labels)))
                             ELSE None,
                updatedFromLabelIds |-> updatedFromLabelIds ],
    comment |-> None ]

\* the TriggerContext webhookHandler builds for a Comment event
CommentContext(action, issueId, commentId, body) ==
  [ eventType |-> "Comment", action |-> action,
    issue |-> [ id |-> issueId, labels |-> None, labelsDetailed |-> None,
                labelIds |-> None, updatedFromLabelIds |-> None ],
    comment |-> Some([id |-> commentId, body |-> body]) ]

Contexts ==
  { IssueContext(a, "i1", l, ids, uf) :
      a \in Operations, l \in IssueLabelStates, ids \in IssueLabelIdStates,
      uf \in UpdatedFromStates }
  \cup { CommentContext(a, "i1", "c1", b) : a \in {"create", "update"}, b \in CommentBodies }

\* ------------------------------------------------ parts that take no step

\* the activation of runSandboxAgent: its locals, its position (pc) and the calls it made
NewRun ==
  [pc |-> "getClient", mode |-> "none", offset |-> 0, sentTurn |-> FALSE,
   sawCompleted |-> FALSE, sawFailed |-> FALSE, timer |-> "unset", timedOut |-> FALSE,
   filesModified |-> <<>>, lastAssistantMessage |-> <<>>, lastProgressTime |-> 0,
   pageLeft |-> 0, hasMore |-> FALSE, pending |-> None, progress |-> <<>>,
   replies |-> <<>>, terminateCalls |-> 0, terminated |-> FALSE, caught |-> None, result |-> None,
   thrown |-> None,
   \* the stream's and the poll's own cursors, and the log of what was handled
   streamed |-> 0, pollArg |-> 0, pageSize |-> 0, handled |-> <<>>, fellBack |-> FALSE,
   \* the onProgress call being awaited and the updates of the event still to send
   inFlight |-> 0, progressLeft |-> <<>>,
   \* what the git commands of finalizeResult printed, when it ran them
   inspected |-> None,
   \* the for-await over the stream ran to its end
   streamDone |-> FALSE,
   \* delay(1000) was awaited at least once
   backedOff |-> FALSE,
   \* the number of calls of sandboxClient.streamTurn
   turns |-> 0,
   \* the error caught around the for-await over the stream
   streamError |-> None,
   \* the result handed to finalizeResult
   finalizing |-> None]

IdleRun == [NewRun EXCEPT !.pc = "idle"]

RunIdle ==
  /\ rLog = <<>>
  /\ rOptions = [detectFileChanges |-> TRUE, permissionPolicy |-> "default"]
  /\ run = IdleRun

KeyIdle ==
  /\ kInput = <<>>
  /\ kKey = <<>>

ConfigIdle ==
  /\ cTriggers = <<>>
  /\ cConfig = <<>>

GithubIdle ==
  /\ gConfig = <<>>
  /\ gReq = <<>>
  /\ gh = <<>>

WorktreeIdle == wf = <<>>

ClientIdle == gc = <<>>

RateIdle == rl = <<>>

ExtIdle == KeyIdle /\ ConfigIdle /\ GithubIdle /\ WorktreeIdle /\ ClientIdle /\ RateIdle

MatchIdle ==
  /\ mRules = <<>>
  /\ mCtx = <<>>
  /\ mHits = None
  /\ mResult = None

WebhookIdle ==
  /\ now = 0
  /\ processedEvents = <<>>
  /\ requests = <<>>
  /\ checks = <<>>
  /\ runs = {}

PermIdle ==
  /\ pPolicy = "default"
  /\ pData = <<>>
  /\ pReply = None

\* ------------------------------------------------ matcher specification

MatchInit ==
  /\ mRules \in RuleLists
  /\ mCtx \in Contexts
  /\ mHits = None
  /\ mResult = None
  /\ WebhookIdle
  /\ PermIdle
  /\ RunIdle
  /\ ExtIdle

EvaluateRules ==
  /\ mHits = None
  /\ mHits' = Some([i \in 1..Len(mRules) |-> EvaluatorMatches(mRules[i], mCtx)])
  /\ UNCHANGED <<mRules, mCtx, mResult>>
  /\ UNCHANGED <<webhookVars, permVars, runVars, extVars>>

Dispatch ==
  /\ mResult = None
  /\ mResult' = Some(matchTriggers(mRules, mCtx))
  /\ UNCHANGED <<mRules, mCtx, mHits>>
  /\ UNCHANGED <<webhookVars, permVars, runVars, extVars>>

MatchNext == EvaluateRules \/ Dispatch

MatchSpec == MatchInit /\ [][MatchNext]_vars

\* ------------------------------------------------ claims on the matcher

RuleIndexes == 1..Len(mRules)

IssueUpdateWithoutSnapshot ==
  /\ mCtx.eventType = "Issue"
  /\ mCtx.action = "update"
  /\ ~IsSome(mCtx.issue.updatedFromLabelIds)

\* some label of the issue carries the name rule i wants
IssueHasWantedLabel(i) ==
  /\ mCtx.eventType = "Issue"
  /\ \E k \in 1..Len(Get(mCtx.issue.labels)) :
       ToLowerCase(Trim(Get(mCtx.issue.labels)[k])) = ToLowerCase(Trim(mRules[i].value))

\* C4: for an Issue update that carries no previous-label snapshot, no label
\* rule matches whatever labels the issue has, and matchTriggers returns no
\* decision for a label rule.
C4_NoSnapshotNoLabelMatch ==
  IssueUpdateWithoutSnapshot =>
    /\ IsSome(mHits) =>
         \A i \in RuleIndexes : mRules[i].type = "label" => ~Get(mHits)[i]
    /\ IsSome(mResult) =>
         (Get(mResult) = None \/ Get(Get(mResult)).trigger.type # "label")

C4_Witness ==
  /\ IssueUpdateWithoutSnapshot
  /\ IsSome(mHits) /\ IsSome(mResult)
  /\ \E i \in RuleIndexes :
       /\ mRules[i].type = "label"
       /\ ~SkippedByOn(mRules[i], "update")
       /\ IssueHasWantedLabel(i)
  /\ Get(mResult) = None

\* the id of the label rule i wants, among the issue's labels (id + name pairs)
WantedIdOfRule(i) ==
  WantedLabelId(ToLowerCase(Trim(mRules[i].value)), mCtx.issue)

AddedByThisUpdate(i) ==
  /\ mCtx.action = "update"
  /\ IsSome(mCtx.issue.updatedFromLabelIds)
  /\ IsSome(WantedIdOfRule(i))
  /\ Includes(CurrentLabelIds(mCtx.issue), Get(WantedIdOfRule(i)))
  /\ ~Includes(Get(mCtx.issue.updatedFromLabelIds), Get(WantedIdOfRule(i)))

\* C5: the label detector returns true only if the operation is create, or the
\* operation is update and the wanted label's id is among the current label ids
\* and not among the previous ones; for every other input it returns false.
C5_LabelDetectorOnlyCreateOrAdded ==
  IsSome(mHits) =>
    \A i \in RuleIndexes :
      (mRules[i].type = "label" /\ Get(mHits)[i]) =>
        (mCtx.action = "create" \/ AddedByThisUpdate(i))

OnContains(i) == IsSome(mRules[i].on) /\ Includes(Get(mRules[i].on), mCtx.action)

OnAbsentOrContains(i) == ~IsSome(mRules[i].on) \/ OnContains(i)

Min(S) == CHOOSE x \in S : \A y \in S : x <= y

FirstOf(Q) ==
  IF Q = {} THEN None
  ELSE Some([trigger |-> mRules[Min(Q)], action |-> mRules[Min(Q)].action])

\* C8 (as stated): matchTriggers returns the first rule whose `on` contains the
\* event's operation and whose matcher accepts the event, and none iff no rule
\* qualifies.
C8_FirstRuleWhoseOnContains ==
  (IsSome(mHits) /\ IsSome(mResult)) =>
    Get(mResult) = FirstOf({i \in RuleIndexes : OnContains(i) /\ Get(mHits)[i]})

\* C8 (amended): matchTriggers returns the first rule, in configured order,
\* whose `on` is absent or contains the event's operation and whose matcher
\* accepts the event; a later qualifying rule is never returned, and the result
\* is none iff no rule qualifies.
C8_FirstRuleOnAbsentOrContains ==
  (IsSome(mHits) /\ IsSome(mResult)) =>
    Get(mResult) = FirstOf({i \in RuleIndexes : OnAbsentOrContains(i) /\ Get(mHits)[i]})

C8_Witness ==
  /\ IsSome(mHits) /\ IsSome(mResult)
  /\ Len(mRules) = 2
  /\ mRules[1] # mRules[2]
  /\ \A i \in RuleIndexes : OnAbsentOrContains(i) /\ Get(mHits)[i]
  /\ Get(mResult) = Some([trigger |-> mRules[1], action |-> mRules[1].action])

\* ------------------------------------------------ dedup guard (Linear)

DEDUP_WINDOW_MS == 30000

\* the map size above which isDuplicateEvent sweeps; 1000 in the source, scaled
\* down so that a sweep happens with the few keys of the model
DEDUP_SWEEP_SIZE == 1

getDeduplicationKey(type, action, dataId) == type \o ":" \o action \o ":" \o dataId

\* the dedupKey expression of webhookHandler; an empty header value is falsy
DedupKeyOf(deliveryId, webhookId, type, action, dataId) ==
  IF IsSome(deliveryId) /\ Get(deliveryId) # "" THEN "delivery:" \o Get(deliveryId)
  ELSE IF IsSome(webhookId) /\ Get(webhookId) # "" THEN "webhook:" \o Get(webhookId)
  ELSE getDeduplicationKey(type, action, dataId)

\* variant: the comparison with the window is inverted
isDuplicateEvent_Inverted(map, key, t) ==
  key \in DOMAIN map /\ map[key] # 0 /\ t - map[key] > DEDUP_WINDOW_MS

\* the value isDuplicateEvent returns
isDuplicateEvent(map, key, t) ==
  key \in DOMAIN map /\ map[key] # 0 /\ t - map[key] < DEDUP_WINDOW_MS

\* variant: the sweep empties the map
SweepExpired_All(map, t) == [k \in {} |-> 0]

SweepExpired(map, t) ==
  LET kept == {k \in DOMAIN map : ~(t - map[k] > DEDUP_WINDOW_MS)}
  IN [k \in kept |-> map[k]]

\* variant: a duplicate refreshes the stored timestamp (sliding window)
ProcessedAfterCheck_RefreshOnSeen(map, key, t) ==
  IF isDuplicateEvent(map, key, t) THEN [map EXCEPT ![key] = t]
  ELSE IF Cardinality(DOMAIN map) > DEDUP_SWEEP_SIZE THEN SweepExpired(map, t)
  ELSE map

\* the Map after a call of isDuplicateEvent (its lazy sweep)
ProcessedAfterCheck(map, key, t) ==
  IF isDuplicateEvent(map, key, t) THEN map
  ELSE IF Cardinality(DOMAIN map) > DEDUP_SWEEP_SIZE THEN SweepExpired(map, t)
  ELSE map

\* variant: nothing is recorded
markEventProcessed_Forgets(map, key, t) == map

markEventProcessed(map, key, t) ==
  [k \in DOMAIN map \cup {key} |-> IF k = key THEN t ELSE map[k]]

\* ------------------------------------------------ Linear webhook handler

TickMs == 10000
MaxTime == 50000
MaxRequests == 3

\* config.linear.triggers of the modelled deployment
ConfiguredTriggers ==
  << [type |-> "label", value |-> Str_a, action |-> "quick", agent |-> None,
      on |-> Some(<<"create", "update">>)],
     [type |-> "mention", value |-> <<"@", "a">>, action |-> "reply",
      agent |-> Some("claude"), on |-> Some(<<"create">>)] >>

\* The webhook notifications Linear may deliver, each any number of times. `id`
\* names the state transition of the issue the notification reports.
Notifications ==
  { \* label "a" added to issue i1
    [ id |-> "labelAdded", signatureValid |-> TRUE, payloadValid |-> TRUE,
      deliveryId |-> Some("d1"), webhookId |-> None,
      type |-> "Issue", action |-> "update", dataId |-> "i1", dataShape |-> "Issue",
      labels |-> Some(<<[id |-> "l1", name |-> Str_a]>>), labelIds |-> Some(<<"l1">>),
      updatedFrom |-> Some(<<>>), body |-> <<>> ],
    \* comment c1 "@a b" posted on issue i1; no delivery header, no webhookId
    [ id |-> "commentPosted", signatureValid |-> TRUE, payloadValid |-> TRUE,
      deliveryId |-> None, webhookId |-> None,
      type |-> "Comment", action |-> "create", dataId |-> "c1", dataShape |-> "Comment",
      labels |-> None, labelIds |-> None,
      updatedFrom |-> None, body |-> <<"@", "a", " ", "b">> ],
    \* title of issue i1 edited while it carries label "a": no label snapshot
    [ id |-> "titleEdited", signatureValid |-> TRUE, payloadValid |-> TRUE,
      deliveryId |-> Some("d2"), webhookId |-> None,
      type |-> "Issue", action |-> "update", dataId |-> "i1", dataShape |-> "Issue",
      labels |-> Some(<<[id |-> "l1", name |-> Str_a]>>), labelIds |-> Some(<<"l1">>),
      updatedFrom |-> None, body |-> <<>> ],
    \* a request that reuses delivery id d1 without a valid signature
    [ id |-> "forged", signatureValid |-> FALSE, payloadValid |-> TRUE,
      deliveryId |-> Some("d1"), webhookId |-> None,
      type |-> "Issue", action |-> "update", dataId |-> "i1", dataShape |-> "Issue",
      labels |-> Some(<<[id |-> "l1", name |-> Str_a]>>), labelIds |-> Some(<<"l1">>),
      updatedFrom |-> Some(<<>>), body |-> <<>> ],
    \* issue i2 created with label "a"; no delivery header, webhookId w1
    [ id |-> "issueCreated", signatureValid |-> TRUE, payloadValid |-> TRUE,
      deliveryId |-> None, webhookId |-> Some("w1"),
      type |-> "Issue", action |-> "create", dataId |-> "i2", dataShape |-> "Issue",
      labels |-> Some(<<[id |-> "l1", name |-> Str_a]>>), labelIds |-> Some(<<"l1">>),
      updatedFrom |-> None, body |-> <<>> ],
    \* comment c2 "@a b" posted on issue i1; no delivery header, webhookId w1
    [ id |-> "secondComment", signatureValid |-> TRUE, payloadValid |-> TRUE,
      deliveryId |-> None, webhookId |-> Some("w1"),
      type |-> "Comment", action |-> "create", dataId |-> "c2", dataShape |-> "Comment",
      labels |-> None, labelIds |-> None,
      updatedFrom |-> None, body |-> <<"@", "a", " ", "b">> ] }

RequestKey(n) == DedupKeyOf(n.deliveryId, n.webhookId, n.type, n.action, n.dataId)

\* matchTriggers as webhookHandler calls it for payload n
TriggerMatchFor(n) ==
  IF n.type = "Issue"
  THEN matchTriggers(ConfiguredTriggers,
         IssueContext(n.action, n.dataId, n.labels, n.labelIds, n.updatedFrom))
  ELSE matchTriggers(ConfiguredTriggers, CommentContext(n.action, "i1", n.dataId, n.body))

\* the response of the handler once the dedup check has passed
ResponseAfterDedup(n) ==
  IF n.type = "Issue"
  THEN IF n.dataShape # "Issue" THEN "400 Invalid issue data"
       ELSE IF TriggerMatchFor(n) = None THEN "ignored: No trigger match"
       ELSE "processing"
  ELSE IF n.action # "create" THEN "ignored: Not a create event"
  ELSE IF n.dataShape # "Comment" THEN "400 Invalid comment data"
  ELSE IF TriggerMatchFor(n) = None THEN "ignored: No trigger"
  ELSE "processing"

\* whether the handler calls matchTriggers for payload n after the dedup check
ReachesMatching(n) ==
  IF n.type = "Issue" THEN n.dataShape = "Issue"
  ELSE n.action = "create" /\ n.dataShape = "Comment"

WebhookInit ==
  /\ now = TickMs
  /\ processedEvents = <<>>
  /\ requests = <<>>
  /\ checks = <<>>
  /\ runs = {}

\* a webhook request arrives; the handler starts and awaits c.req.text()
Receive(n) ==
  /\ Len(requests) < MaxRequests
  /\ requests' = Append(requests,
       [n |-> n, pc |-> "readBody", response |-> "", at |-> 0,
        passedDedup |-> FALSE, matched |-> FALSE])
  /\ UNCHANGED <<now, processedEvents, checks, runs>>
  /\ UNCHANGED <<matchVars, permVars, runVars, extVars>>

\* c.req.text() resolves; the handler calls verifySignature and awaits it
BodyRead(r) ==
  /\ requests[r].pc = "readBody"
  /\ requests' = [requests EXCEPT ![r].pc = "verify"]
  /\ UNCHANGED <<now, processedEvents, checks, runs>>
  /\ UNCHANGED <<matchVars, permVars, runVars, extVars>>

\* verifySignature resolves; the handler runs to its return without another
\* await: signature test, parse, dedup check and mark, trigger matching, and the
\* createComment call whose promise starts the workflow later
Handle(r) ==
  LET n == requests[r].n
      key == RequestKey(n)
      dup == isDuplicateEvent(processedEvents, key, now)
  IN /\ requests[r].pc = "verify"
     /\ IF ~n.signatureValid
        THEN /\ requests' = [requests EXCEPT ![r].pc = "done",
                                             ![r].response = "401 Invalid signature"]
             /\ UNCHANGED <<processedEvents, checks>>
        ELSE IF ~n.payloadValid
        THEN /\ requests' = [requests EXCEPT ![r].pc = "done",
                                             ![r].response = "400 Invalid payload"]
             /\ UNCHANGED <<processedEvents, checks>>
        ELSE IF dup
        THEN /\ requests' = [requests EXCEPT ![r].pc = "done", ![r].at = now,
                                             ![r].response = "ignored: Duplicate event"]
             /\ processedEvents' = ProcessedAfterCheck(processedEvents, key, now)
             /\ checks' = Append(checks, [key |-> key, at |-> now, seen |-> TRUE, req |-> r])
        ELSE /\ requests' =
                  [requests EXCEPT
                     ![r].pc = IF ResponseAfterDedup(n) = "processing" THEN "ack" ELSE "done",
                     ![r].at = now,
                     ![r].passedDedup = TRUE,
                     ![r].matched = ReachesMatching(n),
                     ![r].response = ResponseAfterDedup(n)]
             /\ processedEvents' =
                  markEventProcessed(ProcessedAfterCheck(processedEvents, key, now), key, now)
             /\ checks' = Append(checks, [key |-> key, at |-> now, seen |-> FALSE, req |-> r])
     /\ UNCHANGED <<now, runs>>
     /\ UNCHANGED <<matchVars, permVars, runVars, extVars>>
  /\ UNCHANGED <<matchVars, permVars, runVars, extVars>>

\* the acknowledgment comment is posted: .then() starts the workflow of the match
AckPosted(r) ==
  /\ requests[r].pc = "ack"
  /\ requests' = [requests EXCEPT ![r].pc = "done"]
  /\ runs' = runs \cup
       {[req |-> r, transition |-> requests[r].n.id, at |-> requests[r].at,
         action |-> Get(TriggerMatchFor(requests[r].n)).action]}
  /\ UNCHANGED <<now, processedEvents, checks>>
  /\ UNCHANGED <<matchVars, permVars, runVars, extVars>>

\* createComment rejects: .catch() logs, no workflow starts
AckFailed(r) ==
  /\ requests[r].pc = "ack"
  /\ requests' = [requests EXCEPT ![r].pc = "done"]
  /\ UNCHANGED <<now, processedEvents, checks, runs>>
  /\ UNCHANGED <<matchVars, permVars, runVars, extVars>>

Tick ==
  /\ now + TickMs <= MaxTime
  /\ now' = now + TickMs
  /\ UNCHANGED <<processedEvents, requests, checks, runs>>
  /\ UNCHANGED <<matchVars, permVars, runVars, extVars>>

Next ==
  \/ \E n \in Notifications : Receive(n)
  \/ \E r \in 1..Len(requests) : BodyRead(r)
  \/ \E r \in 1..Len(requests) : Handle(r)
  \/ \E r \in 1..Len(requests) : AckPosted(r)
  \/ \E r \in 1..Len(requests) : AckFailed(r)
  \/ Tick

Init == WebhookInit /\ MatchIdle /\ PermIdle /\ RunIdle /\ ExtIdle

Spec == Init /\ [][Next]_vars

\* ------------------------------------------------ claims on the webhook handler

Abs(x) == IF x < 0 THEN -x ELSE x

RunsOf(transition) == {x \in runs : x.transition = transition}

\* C1 (as stated): for one state transition of an issue at most one run is
\* started, however often and whenever its notification is delivered.
C1_AtMostOneRunPerTransition ==
  \A x \in runs : \A y \in runs : x.transition = y.transition => x = y

\* C1 (amended): for one state transition of an issue, no two runs are started
\* by deliveries handled less than one dedup window (DEDUP_WINDOW_MS) apart: a
\* second run needs a delivery handled a full window after the accepted one.
C1_AtMostOneRunPerWindow ==
  \A x \in runs : \A y \in runs :
    (x.transition = y.transition /\ x # y) => Abs(x.at - y.at) >= DEDUP_WINDOW_MS

\* two deliveries of one transition handled inside one window: one run, one duplicate
C1_Witness ==
  \E r1 \in 1..Len(requests) : \E r2 \in 1..Len(requests) :
    /\ requests[r1].n = requests[r2].n
    /\ requests[r1].pc = "done" /\ requests[r2].pc = "done"
    /\ requests[r1].passedDedup
    /\ requests[r2].response = "ignored: Duplicate event"
    /\ requests[r2].at - requests[r1].at < DEDUP_WINDOW_MS
    /\ Cardinality(RunsOf(requests[r1].n.id)) = 1

\* C6: for any key the guard answers "not seen" to the first call, "seen" to
\* every call made less than one window after an accepted call, "not seen" again
\* to the first call made once the window has elapsed; a "seen" answer leaves the
\* stored timestamp alone, so the window runs from the accepted call.
C6_DedupWindow ==
  /\ \A j \in 1..Len(checks) :
       checks[j].seen <=>
         \E i \in 1..(j - 1) :
           /\ checks[i].key = checks[j].key
           /\ ~checks[i].seen
           /\ checks[j].at - checks[i].at < DEDUP_WINDOW_MS
  /\ \A k \in DOMAIN processedEvents :
       \E i \in 1..Len(checks) :
         /\ checks[i].key = k /\ ~checks[i].seen /\ checks[i].at = processedEvents[k]
         /\ \A j \in (i + 1)..Len(checks) : checks[j].key = k => checks[j].seen

C6_Witness ==
  \E i \in 1..Len(checks) : \E j \in 1..Len(checks) : \E k \in 1..Len(checks) :
    /\ i < j /\ j < k
    /\ checks[i].key = checks[j].key /\ checks[j].key = checks[k].key
    /\ ~checks[i].seen /\ checks[j].seen /\ ~checks[k].seen
    /\ checks[j].at > checks[i].at
    /\ checks[k].at - checks[i].at >= DEDUP_WINDOW_MS

DedupChecked(r) == requests[r].at # 0

SameDeliveryId(r1, r2) ==
  /\ IsSome(requests[r1].n.deliveryId)
  /\ requests[r1].n.deliveryId = requests[r2].n.deliveryId

\* C7: of the requests that carry one delivery id and are handled within the
\* dedup window, in any interleaving of the handler's await points, exactly one
\* passes the dedup check and reaches trigger matching; the others are answered
\* as ignored duplicates.
C7_OneOfSameDeliveryPasses ==
  \A r1 \in 1..Len(requests) :
    /\ requests[r1].matched <=> requests[r1].passedDedup
    /\ (DedupChecked(r1) /\ ~requests[r1].passedDedup) =>
         /\ requests[r1].response = "ignored: Duplicate event"
         /\ \E r2 \in 1..Len(requests) :
              /\ requests[r2].passedDedup
              /\ RequestKey(requests[r2].n) = RequestKey(requests[r1].n)
              /\ requests[r1].at - requests[r2].at < DEDUP_WINDOW_MS
    /\ \A r2 \in 1..Len(requests) :
         ( /\ r1 # r2
           /\ DedupChecked(r1) /\ DedupChecked(r2)
           /\ SameDeliveryId(r1, r2)
           /\ Abs(requests[r1].at - requests[r2].at) < DEDUP_WINDOW_MS )
         => ~(requests[r1].passedDedup /\ requests[r2].passedDedup)

\* two requests with one delivery id in flight at once, both past the check
C7_Witness ==
  \E r1 \in 1..Len(requests) : \E r2 \in 1..Len(requests) :
    /\ r1 < r2
    /\ SameDeliveryId(r1, r2)
    /\ \E j \in 1..Len(checks) : \E i \in 1..(j - 1) :
         checks[i].req = r2 /\ checks[j].req = r1
    /\ requests[r2].passedDedup /\ requests[r2].matched
    /\ requests[r1].response = "ignored: Duplicate event"
    /\ requests[r1].at = requests[r2].at

\* ------------------------------------------------ regular expressions

\* pattern p matched case-insensitively at s[from..]
MatchesAt(s, from, p) ==
  /\ from >= 1
  /\ from + Len(p) - 1 <= Len(s)
  /\ ToLowerCase(SubSeq(s, from, from + Len(p) - 1)) = ToLowerCase(p)

\* \b before position i of s
WordBoundaryBefore(s, i) ==
  IsWordChar(s[i]) # (i > 1 /\ IsWordChar(s[i - 1]))

\* /\bword\b/i
TestWord(s, word) ==
  \E from \in 1..Len(s) :
    /\ MatchesAt(s, from, word)
    /\ WordBoundaryBefore(s, from)
    /\ WordBoundaryAfter(s, from + Len(word) - 1)

\* /\bfirst\s+second\b/i
TestTwoWords(s, first, second) ==
  \E from \in 1..Len(s) : \E gap \in 1..Len(s) :
    /\ MatchesAt(s, from, first)
    /\ WordBoundaryBefore(s, from)
    /\ from + Len(first) + gap - 1 <= Len(s)
    /\ \A i \in (from + Len(first))..(from + Len(first) + gap - 1) : IsSpace(s[i])
    /\ MatchesAt(s, from + Len(first) + gap, second)
    /\ WordBoundaryAfter(s, from + Len(first) + gap + Len(second) - 1)

\* the texts of the regular expressions and the sample tool names, commands and paths
Text ==
  [ mcpPrefix |->
      <<"m", "c", "p", "_", "_">>,
    linear |->
      <<"l", "i", "n", "e", "a", "r">>,
    mcpCli |->
      <<"m", "c", "p", "-", "c", "l", "i">>,
    linearCreateComment |->
      <<"m", "c", "p", "_", "_", "l", "i", "n", "e", "a", "r", "_", "_", "c", "r", "e", "a", "t", "e", "_", "c", "o", "m", "m", "e", "n", "t">>,
    linearUpdateIssuePadded |->
      <<" ", "M", "C", "P", "_", "_", "L", "i", "n", "e", "a", "r", "_", "_", "u", "p", "d", "a", "t", "e", "_", "i", "s", "s", "u", "e", " ">>,
    githubCreatePr |->
      <<"m", "c", "p", "_", "_", "g", "i", "t", "h", "u", "b", "_", "_", "c", "r", "e", "a", "t", "e", "_", "p", "r">>,
    bash |->
      <<"B", "a", "s", "h">>,
    mcpCliLinear |->
      <<"m", "c", "p", "-", "c", "l", "i", " ", "c", "a", "l", "l", " ", "l", "i", "n", "e", "a", "r", "/", "c", "r", "e", "a", "t", "e", "_", "c", "o", "m", "m", "e", "n", "t">>,
    gitPush |->
      <<"g", "i", "t", " ", " ", "p", "u", "s", "h", " ", "o", "r", "i", "g", "i", "n">>,
    ls |->
      <<"l", "s", " ", "-", "l", "a">>,
    redirect |->
      <<"e", "c", "h", "o", " ", "a", " ", ">", "b">>,
    npmInstall |->
      <<"n", "p", "m", " ", "i", "n", "s", "t", "a", "l", "l", " ", "l", "e", "f", "t", "-", "p", "a", "d">>,
    rmRf |->
      <<"r", "m", " ", "-", "r", "f", " ", "b", "u", "i", "l", "d">>,
    gitCherryPick |->
      <<"G", "i", "t", " ", "c", "h", "e", "r", "r", "y", "-", "p", "i", "c", "k", " ", "a", "b", "c">>,
    platform |->
      <<"e", "c", "h", "o", " ", "p", "l", "a", "t", "f", "o", "r", "m">>,
    gitStatus |->
      <<"g", "i", "t", " ", "s", "t", "a", "t", "u", "s">>,
    pathA |->
      <<"a", ".", "t", "s">>,
    pathB |->
      <<"b", ".", "t", "s">>,
    pathNew |->
      <<"n", "e", "w", ".", "t", "s">> ]

\* /^mcp__.*linear/i ; `.` does not match a line terminator
TestLinearMcpTool(t) ==
  /\ MatchesAt(t, 1, Text.mcpPrefix)
  /\ \E from \in (Len(Text.mcpPrefix) + 1)..Len(t) :
       /\ MatchesAt(t, from, Text.linear)
       /\ \A i \in (Len(Text.mcpPrefix) + 1)..(from - 1) : t[i] # "\n"

\* ------------------------------------------------ permission policy

\* A PermissionEventData is [permission_id, action, metadata]. A metadata value is
\*   [kind |-> "undefined" | "null" | "string"]   or
\*   [kind |-> "object", permissionSuggestions, input, toolName] with
\*   permissionSuggestions = [kind |-> "absent" | "notArray"] or
\*                           [kind |-> "array", items |-> sequence of suggestions]
\*   suggestion = [kind |-> "null"] or [kind |-> "object", rules |-> like above]
\*   rule       = [toolName |-> [kind |-> "absent" | "number"] or
\*                              [kind |-> "string", text |-> characters]]
\*   input      = [kind |-> "absent"] or [kind |-> "object", command |-> like toolName]
\*   toolName   = the tool named by a top-level field of the metadata

RuleToolNames(rules) ==
  { Trim(rules[i].toolName.text) :
      i \in { j \in 1..Len(rules) :
                /\ rules[j].toolName.kind = "string"
                /\ Trim(rules[j].toolName.text) # <<>> } }

extractPermissionToolNames(metadata) ==
  IF metadata.kind # "object" THEN {}
  ELSE IF metadata.permissionSuggestions.kind # "array" THEN {}
  ELSE LET suggestions == metadata.permissionSuggestions.items
       IN UNION { IF suggestions[i].kind = "object" /\ suggestions[i].rules.kind = "array"
                  THEN RuleToolNames(suggestions[i].rules.items)
                  ELSE {} : i \in 1..Len(suggestions) }

extractPermissionCommand(metadata) ==
  IF metadata.kind # "object" THEN None
  ELSE IF metadata.input.kind # "object" THEN None
  ELSE IF metadata.input.command.kind # "string" THEN None
  ELSE Some(metadata.input.command.text)

isReviewWriteCommand_NoRedirection(command) ==
  LET cmd == Trim(command)
  IN IF cmd = <<>> THEN FALSE
     ELSE \/ \E verb \in { <<"c", "o", "m", "m", "i", "t">>, <<"p", "u", "s", "h">>, <<"m", "e", "r", "g", "e">>, <<"r", "e", "b", "a", "s", "e">>, <<"r", "e", "s", "e", "t">>, <<"c", "h", "e", "c", "k", "o", "u", "t">>,
                           <<"c", "h", "e", "r", "r", "y", "-", "p", "i", "c", "k">>, <<"a", "p", "p", "l", "y">>, <<"a", "m">> } : TestTwoWords(cmd, <<"g", "i", "t">>, verb)
          \/ \E word \in { <<"r", "m">>, <<"m", "v">>, <<"c", "p">>, <<"c", "h", "m", "o", "d">>, <<"c", "h", "o", "w", "n">>, <<"l", "n">> } : TestWord(cmd, word)
          \/ TestWord(cmd, <<"t", "e", "e">>)
          \/ \E tool \in { <<"b", "r", "e", "w">>, <<"b", "u", "n">>, <<"n", "p", "m">>, <<"p", "n", "p", "m">>, <<"y", "a", "r", "n">> } :
               TestTwoWords(cmd, tool, <<"i", "n", "s", "t", "a", "l", "l">>)

isReviewWriteCommand(command) ==
  LET cmd == Trim(command)
  IN IF cmd = <<>> THEN FALSE
     ELSE \/ \E verb \in { <<"c", "o", "m", "m", "i", "t">>, <<"p", "u", "s", "h">>, <<"m", "e", "r", "g", "e">>, <<"r", "e", "b", "a", "s", "e">>, <<"r", "e", "s", "e", "t">>, <<"c", "h", "e", "c", "k", "o", "u", "t">>,
                           <<"c", "h", "e", "r", "r", "y", "-", "p", "i", "c", "k">>, <<"a", "p", "p", "l", "y">>, <<"a", "m">> } : TestTwoWords(cmd, <<"g", "i", "t">>, verb)
          \/ \E word \in { <<"r", "m">>, <<"m", "v">>, <<"c", "p">>, <<"c", "h", "m", "o", "d">>, <<"c", "h", "o", "w", "n">>, <<"l", "n">> } : TestWord(cmd, word)
          \/ TestWord(cmd, <<"t", "e", "e">>)
          \/ \E i \in 1..Len(cmd) : cmd[i] = ">"
          \/ \E tool \in { <<"b", "r", "e", "w">>, <<"b", "u", "n">>, <<"n", "p", "m">>, <<"p", "n", "p", "m">>, <<"y", "a", "r", "n">> } :
               TestTwoWords(cmd, tool, <<"i", "n", "s", "t", "a", "l", "l">>)

CommandNamesLinearMcp(cmd) ==
  cmd # <<>> /\ TestWord(cmd, Text.mcpCli) /\ TestWord(cmd, Text.linear)

\* "TypeError" stands for the exception of reading a property of a missing data
decidePermissionReply(data, policy) ==
  IF policy = "default" THEN "once"
  ELSE IF data = None THEN "TypeError"
  ELSE LET toolNames == extractPermissionToolNames(data.metadata)
           cmd == extractPermissionCommand(data.metadata)
       IN IF \E t \in toolNames : TestLinearMcpTool(t) THEN "reject"
          ELSE IF IsSome(cmd) /\ CommandNamesLinearMcp(Get(cmd)) THEN "reject"
          ELSE IF policy = "mentionReply" THEN "once"
          ELSE IF IsSome(cmd) /\ Get(cmd) # <<>> /\ isReviewWriteCommand(Get(cmd)) THEN "reject"
          ELSE "once"

\* ------------------------------------------------ inputs of the policy

\* the tools of the Linear MCP server among the sample tool names
LinearMcpTools == {Text.linearCreateComment, Trim(Text.linearUpdateIssuePadded)}

Absent == [kind |-> "absent"]
NotArray == [kind |-> "notArray"]
ArrayOf(items) == [kind |-> "array", items |-> items]
StringOf(text) == [kind |-> "string", text |-> text]
RuleFor(name) == [toolName |-> name]
SuggestionWith(rules) == [kind |-> "object", rules |-> rules]

SuggestionsPool ==
  { Absent, NotArray, ArrayOf(<<>>),
    ArrayOf(<<[kind |-> "null"]>>),
    ArrayOf(<<SuggestionWith(Absent)>>),
    ArrayOf(<<SuggestionWith(NotArray)>>),
    ArrayOf(<<SuggestionWith(ArrayOf(<<RuleFor(Absent)>>))>>),
    ArrayOf(<<SuggestionWith(ArrayOf(<<RuleFor([kind |-> "number"])>>))>>),
    ArrayOf(<<SuggestionWith(ArrayOf(<<RuleFor(StringOf(Text.bash))>>))>>),
    ArrayOf(<<SuggestionWith(ArrayOf(<<RuleFor(StringOf(Text.githubCreatePr))>>))>>),
    ArrayOf(<<SuggestionWith(ArrayOf(<<RuleFor(StringOf(Text.linearCreateComment))>>))>>),
    ArrayOf(<<SuggestionWith(ArrayOf(<<RuleFor(StringOf(Text.bash)),
                                       RuleFor(StringOf(Text.linearUpdateIssuePadded))>>))>>),
    ArrayOf(<<SuggestionWith(ArrayOf(<<RuleFor(StringOf(Text.bash))>>)),
              SuggestionWith(ArrayOf(<<RuleFor(StringOf(Text.linearCreateComment))>>))>>) }

InputPool ==
  { Absent,
    [kind |-> "object", command |-> Absent],
    [kind |-> "object", command |-> [kind |-> "number"]] }
  \cup { [kind |-> "object", command |-> StringOf(c)] :
           c \in {Text.mcpCliLinear, Text.gitPush, Text.ls, Text.redirect, Text.npmInstall,
                  Text.rmRf, Text.gitCherryPick, Text.platform, Text.gitStatus, <<>>} }

TopLevelToolPool == {None, Some(Text.bash), Some(Text.linearCreateComment)}

MetadataPool ==
  { [kind |-> "undefined"], [kind |-> "null"], [kind |-> "string"] }
  \cup { [kind |-> "object", permissionSuggestions |-> sg, input |-> inp, toolName |-> top] :
           sg \in SuggestionsPool, inp \in InputPool, top \in TopLevelToolPool }

\* the permission.requested case of handleEvent up to its replyPermission call:
\* the verdict, then permData.permission_id is read for the call
PermissionReplyCall(data, policy) ==
  LET reply == decidePermissionReply(data, policy)
  IN IF reply = "TypeError" \/ data = None
     THEN [threw |-> TRUE, id |-> "", reply |-> "TypeError"]
     ELSE [threw |-> FALSE, id |-> data.permission_id, reply |-> reply]

PermissionRequests ==
  { [permission_id |-> "p1", action |-> "tool", metadata |-> md] : md \in MetadataPool }

PermissionPolicies == {"default", "mentionReply", "review"}

\* ------------------------------------------------ policy specification

PermInit ==
  /\ pPolicy \in PermissionPolicies
  /\ pData \in PermissionRequests \cup {None}
  /\ pReply = None
  /\ MatchIdle
  /\ WebhookIdle
  /\ RunIdle
  /\ ExtIdle

Decide ==
  /\ pReply = None
  /\ pReply' = Some(PermissionReplyCall(pData, pPolicy).reply)
  /\ UNCHANGED <<pPolicy, pData>>
  /\ UNCHANGED <<matchVars, webhookVars, runVars, extVars>>

PermNext == Decide

PermSpec == PermInit /\ [][PermNext]_vars

\* ------------------------------------------------ claims on the policy

\* every tool name the metadata carries, wherever it sits
ToolsNamedIn(metadata) ==
  IF metadata.kind # "object" THEN {}
  ELSE (IF IsSome(metadata.toolName) THEN {Trim(Get(metadata.toolName))} ELSE {})
       \cup
       (IF metadata.permissionSuggestions.kind # "array" THEN {}
        ELSE UNION { IF sg.kind = "object" /\ sg.rules.kind = "array"
                     THEN RuleToolNames(sg.rules.items) ELSE {} :
                     sg \in { metadata.permissionSuggestions.items[i] :
                                i \in 1..Len(metadata.permissionSuggestions.items) } })

NamesLinearMcpTool(metadata) == ToolsNamedIn(metadata) \cap LinearMcpTools # {}

\* C10: under permissionPolicy 'mentionReply' every permission request whose
\* metadata names a Linear MCP tool, in whatever shape it names it, is answered
\* 'reject'.
C10_MentionReplyRejectsLinearTools ==
  (pPolicy = "mentionReply" /\ IsSome(pReply) /\ pData # None
     /\ NamesLinearMcpTool(pData.metadata))
    => Get(pReply) = "reject"

\* C11: for every policy and every permission.requested event, whatever the shape
\* of its data and metadata, deciding and preparing the reply yields 'once' or
\* 'reject' and throws nothing.
C11_DecisionIsTotal ==
  IsSome(pReply) => Get(pReply) \in {"once", "reject"}

\* the characters a..b of s are a whole word: a maximal run of word characters
IsWordIn(s, a, b) ==
  /\ a <= b
  /\ \A i \in a..b : IsWordChar(s[i])
  /\ (a = 1 \/ ~IsWordChar(s[a - 1]))
  /\ (b = Len(s) \/ ~IsWordChar(s[b + 1]))

WordsOf(s) == { w \in (1..Len(s)) \X (1..Len(s)) : IsWordIn(s, w[1], w[2]) }

WordText(s, w) == ToLowerCase(SubSeq(s, w[1], w[2]))

\* word v follows word w after white space only
FollowsAfterSpace(s, w, v) ==
  /\ w[2] + 1 < v[1]
  /\ \A i \in (w[2] + 1)..(v[1] - 1) : IsSpace(s[i])

\* the command uses a mutating verb of the deny-list
DenyListed(cmd) ==
  LET words == WordsOf(cmd)
  IN \/ \E g \in words : \E v \in words :
          /\ WordText(cmd, g) = <<"g", "i", "t">>
          /\ FollowsAfterSpace(cmd, g, v)
          /\ \/ WordText(cmd, v) \in { <<"c", "o", "m", "m", "i", "t">>, <<"p", "u", "s", "h">>, <<"m", "e", "r", "g", "e">>, <<"r", "e", "b", "a", "s", "e">>, <<"r", "e", "s", "e", "t">>, <<"c", "h", "e", "c", "k", "o", "u", "t">>, <<"a", "p", "p", "l", "y">> }
             \/ /\ WordText(cmd, v) = <<"c", "h", "e", "r", "r", "y">>
                /\ \E k \in words :
                     /\ k[1] = v[2] + 2
                     /\ cmd[v[2] + 1] = "-"
                     /\ WordText(cmd, k) = <<"p", "i", "c", "k">>
     \/ \E w \in words : WordText(cmd, w) \in { <<"r", "m">>, <<"m", "v">>, <<"c", "p">>, <<"c", "h", "m", "o", "d">>, <<"c", "h", "o", "w", "n">>, <<"l", "n">> }
     \/ \E i \in 1..Len(cmd) : cmd[i] = ">"
     \/ \E t \in words : \E n \in words :
          /\ WordText(cmd, t) \in { <<"b", "r", "e", "w">>, <<"b", "u", "n">>, <<"n", "p", "m">>, <<"p", "n", "p", "m">>, <<"y", "a", "r", "n">> }
          /\ FollowsAfterSpace(cmd, t, n)
          /\ WordText(cmd, n) = <<"i", "n", "s", "t", "a", "l", "l">>

\* C12: 'default' grants every request; every request rejected under
\* 'mentionReply' is rejected under 'review'; 'review' rejects every request whose
\* shell command uses a verb of the deny-list (git commit/push/merge/rebase/reset/
\* checkout/cherry-pick/apply, rm/mv/cp/chmod/chown/ln, a redirection, an install
\* by brew/bun/npm/pnpm/yarn).
C12_ReviewAtLeastAsStrict ==
  (IsSome(pReply) /\ pData # None) =>
    /\ (pPolicy = "default") => Get(pReply) = "once"
    /\ (pPolicy = "review") =>
         /\ (decidePermissionReply(pData, "mentionReply") = "reject")
              => Get(pReply) = "reject"
         /\ LET cmd == extractPermissionCommand(pData.metadata)
            IN (IsSome(cmd) /\ DenyListed(Get(cmd))) => Get(pReply) = "reject"

\* a review request that a mention reply would be granted is rejected for its command
C12_Witness ==
  /\ pPolicy = "review"
  /\ pData # None
  /\ pReply = Some("reject")
  /\ decidePermissionReply(pData, "mentionReply") = "once"
  /\ extractPermissionCommand(pData.metadata) = Some(Text.redirect)

\* ------------------------------------------------ agent runner: data

\* indexOf of a substring (exact case), 0 when absent
ContainsText(s, sub) ==
  \E from \in 1..(Len(s) + 1) :
    /\ from + Len(sub) - 1 <= Len(s)
    /\ SubSeq(s, from, from + Len(sub) - 1) = sub

\* String.prototype.split('\n')
RECURSIVE SplitLines(_)
SplitLines(s) ==
  IF \A i \in 1..Len(s) : s[i] # "\n" THEN <<s>>
  ELSE LET at == CHOOSE i \in 1..Len(s) : s[i] = "\n" /\ \A j \in 1..(i - 1) : s[j] # "\n"
       IN <<SubSeq(s, 1, at - 1)>> \o SplitLines(SubSeq(s, at + 1, Len(s)))

\* errors a runtime call can reject with
Errors ==
  [ abort |->
      [class |-> "DOMException", name |-> "AbortError", message |-> <<"T", "h", "e", " ", "o", "p", "e", "r", "a", "t", "i", "o", "n", " ", "w", "a", "s", " ", "a", "b", "o", "r", "t", "e", "d">>, code |-> None],
    unable |->
      [class |-> "Error", name |-> "Error", message |-> <<"U", "n", "a", "b", "l", "e", " ", "t", "o", " ", "c", "o", "n", "n", "e", "c", "t">>, code |-> None],
    timeout |->
      [class |-> "DOMException", name |-> "TimeoutError", message |-> <<"T", "h", "e", " ", "o", "p", "e", "r", "a", "t", "i", "o", "n", " ", "t", "i", "m", "e", "d", " ", "o", "u", "t">>, code |-> None],
    refused |->
      [class |-> "object", name |-> "", message |-> <<>>, code |-> Some("ECONNREFUSED")],
    fatal |->
      [class |-> "Error", name |-> "Error", message |-> <<"H", "T", "T", "P", " ", "5", "0", "0">>, code |-> None],
    typeError |->
      [class |-> "Error", name |-> "TypeError", message |-> <<"C", "a", "n", "n", "o", "t", " ", "r", "e", "a", "d", " ", "p", "r", "o", "p", "e", "r", "t", "i", "e", "s", " ", "o", "f", " ", "u", "n", "d", "e", "f", "i", "n", "e", "d">>, code |-> None] ]

isRetryableStreamError(error) ==
  IF error.class = "DOMException"
  THEN error.name \in {"TimeoutError", "AbortError"}
  ELSE \/ /\ error.class = "Error"
          /\ LET message == ToLowerCase(error.message)
             IN \/ ContainsText(message, <<"t", "i", "m", "e", "d", " ", "o", "u", "t">>)
                \/ ContainsText(message, <<"u", "n", "a", "b", "l", "e", " ", "t", "o", " ", "c", "o", "n", "n", "e", "c", "t">>)
                \/ ContainsText(message, <<"c", "o", "n", "n", "e", "c", "t", "i", "o", "n", " ", "r", "e", "f", "u", "s", "e", "d">>)
       \/ /\ IsSome(error.code)
          /\ Get(error.code) \in {"ECONNREFUSED", "ConnectionRefused"}

\* the events of the agent runtime (UniversalEvent)
Events ==
  [ started |->
      [type |-> "session.started", data |-> [none |-> TRUE]],
    answer |->
      [type |-> "item.completed", data |-> [item |-> Some([kind |-> "message", role |-> "assistant", status |-> "completed", content |-> << [type |-> "text", text |-> <<" ", "o", "k", " ">>], [type |-> "file_ref", path |-> Text.pathB, action |-> "patch"], [type |-> "file_ref", path |-> Text.pathB, action |-> "write"] >>])]],
    toolFailed |->
      [type |-> "item.completed", data |-> [item |-> Some([kind |-> "tool_call", role |-> "assistant", status |-> "failed", content |-> << [type |-> "tool_call", name |-> "Bash"], [type |-> "tool_call", name |-> "Read"], [type |-> "file_ref", path |-> Text.pathA, action |-> "write"], [type |-> "file_ref", path |-> Text.pathB, action |-> "read"] >>])]],
    permission |->
      [type |-> "permission.requested", data |-> [permission_id |-> "p1", action |-> "tool", metadata |-> [kind |-> "object", permissionSuggestions |-> ArrayOf(<<SuggestionWith(ArrayOf(<<RuleFor(StringOf(Text.linearCreateComment))>>))>>), input |-> Absent, toolName |-> None]]],
    question |->
      [type |-> "question.requested", data |-> [question_id |-> "q1"]],
    endedCompleted |->
      [type |-> "session.ended", data |-> [reason |-> "completed", message |-> None]],
    endedError |->
      [type |-> "session.ended", data |-> [reason |-> "error", message |-> Some("agent crashed")]],
    itemStarted |->
      [type |-> "item.started", data |-> [none |-> TRUE]],
    permissionNoData |->
      [type |-> "permission.requested", data |-> None] ]

EventPool ==
  { Events.started, Events.answer, Events.toolFailed, Events.permission, Events.question,
    Events.endedCompleted, Events.endedError, Events.itemStarted,
    Events.permissionNoData }

\* what `git status`, `git symbolic-ref` and `git diff` print in the workspace;
\* None when the command fails
WorkspacePool ==
  { [status |-> None, symbolicRef |-> None, diff |-> None],
    [status |-> Some(<<>>), symbolicRef |-> None, diff |-> None],
    [status |-> Some(<<" ", "M", " ", "a", ".", "t", "s", "\n", "R", " ", " ", "b", ".", "t", "s", " ", "-", ">", " ", "n", "e", "w", ".", "t", "s", "\n">>), symbolicRef |-> None, diff |-> None],
    [status |-> Some(<<>>), symbolicRef |-> Some(<<"r", "e", "f", "s", "/", "r", "e", "m", "o", "t", "e", "s", "/", "o", "r", "i", "g", "i", "n", "/", "m", "a", "i", "n", "\n">>), diff |-> Some(<<"b", ".", "t", "s", "\n">>)],
    [status |-> Some(<<" ", "M", " ", "a", ".", "t", "s", "\n", "R", " ", " ", "b", ".", "t", "s", " ", "-", ">", " ", "n", "e", "w", ".", "t", "s", "\n">>), symbolicRef |-> Some(<<"r", "e", "f", "s", "/", "r", "e", "m", "o", "t", "e", "s", "/", "o", "r", "i", "g", "i", "n", "/", "m", "a", "i", "n", "\n">>), diff |-> Some(<<"b", ".", "t", "s", "\n">>)],
    [status |-> Some(<<>>), symbolicRef |-> Some(<<"r", "e", "f", "s", "/", "r", "e", "m", "o", "t", "e", "s", "/", "o", "r", "i", "g", "i", "n", "/", "m", "a", "i", "n", "\n">>), diff |-> None] }

SessionId == "s1"

\* SandboxRunConfig of the run
RunConfig == [timeoutMs |-> 600000, progressIntervalMs |-> 30000, includeToolCalls |-> TRUE]

\* the `options` argument of runSandboxAgent
RunOptionsPool ==
  { [detectFileChanges |-> TRUE, permissionPolicy |-> "default"],
    [detectFileChanges |-> FALSE, permissionPolicy |-> "mentionReply"] }

MaxEvents == 2

\* a reading of Date.now()
NowMs == 1000000

EventLogs == SeqsUpTo(EventPool, MaxEvents)

\* ------------------------------------------------ agent runner: pure functions

buildSummary(files) ==
  IF Len(files) = 0 THEN [text |-> "No files were modified.", files |-> <<>>]
  ELSE [text |-> "Modified n file(s)", files |-> files]

\* lastIndexOf(' -> '), 0 when absent
LastArrowIndex(s) ==
  LET arrow == <<" ", "-", ">", " ">>
      hits == { i \in 1..Len(s) : i + 3 <= Len(s) /\ SubSeq(s, i, i + 3) = arrow }
  IN IF hits = {} THEN 0 ELSE CHOOSE i \in hits : \A j \in hits : j <= i

RECURSIVE ParseStatusLines(_, _)
ParseStatusLines(lines, files) ==
  IF lines = <<>> THEN files
  ELSE LET line == Head(lines)
           pathPart == Trim(SubSeq(line, 4, Len(line)))
           arrowIndex == LastArrowIndex(pathPart)
           path == IF arrowIndex > 0 THEN SubSeq(pathPart, arrowIndex + 4, Len(pathPart))
                   ELSE pathPart
       IN IF Trim(line) = <<>> \/ pathPart = <<>> THEN ParseStatusLines(Tail(lines), files)
          ELSE IF path # <<>> /\ ~Includes(files, path)
               THEN ParseStatusLines(Tail(lines), Append(files, path))
               ELSE ParseStatusLines(Tail(lines), files)

parseGitStatusFiles(output) == ParseStatusLines(SplitLines(output), <<>>)

\* null (None) or 'origin/<branch>'
getMainBranch(workspace) ==
  IF workspace.symbolicRef = None THEN None
  ELSE LET result == Trim(Get(workspace.symbolicRef))
           prefix == <<"r", "e", "f", "s", "/", "r", "e", "m", "o", "t", "e", "s", "/", "o", "r", "i", "g", "i", "n", "/">>
           at == { i \in 1..Len(result) :
                     i + Len(prefix) - 1 <= Len(result)
                     /\ SubSeq(result, i, i + Len(prefix) - 1) = prefix }
           branch == IF at = {} THEN result
                     ELSE LET first == Min(at)
                          IN SubSeq(result, 1, first - 1)
                             \o SubSeq(result, first + Len(prefix), Len(result))
       IN IF branch = <<>> THEN None ELSE Some(<<"o", "r", "i", "g", "i", "n", "/">> \o branch)

TrimmedNonEmpty(lines) == SelectSeq([i \in 1..Len(lines) |-> Trim(lines[i])], LAMBDA l : l # <<>>)

\* None when `git diff` fails (the call throws)
getCommittedFiles(workspace) ==
  IF getMainBranch(workspace) = None THEN Some(<<>>)
  ELSE IF workspace.diff = None THEN None
  ELSE Some(TrimmedNonEmpty(SplitLines(Get(workspace.diff))))

\* finalizeResult gets as far as running git in the workspace
QueriesWorkspace(result, detectFileChanges) ==
  detectFileChanges /\ Len(result.filesModified) = 0

finalizeResult_GitWins(result, workspace, detectFileChanges) ==
  IF ~detectFileChanges \/ workspace.status = None THEN result
  ELSE LET files == parseGitStatusFiles(Get(workspace.status))
       IN IF Len(files) > 0
          THEN [result EXCEPT !.filesModified = files, !.summary = buildSummary(files)]
          ELSE result

finalizeResult_FailsRun(result, workspace, detectFileChanges) ==
  IF detectFileChanges /\ Len(result.filesModified) = 0 /\ workspace.status = None
  THEN [result EXCEPT !.success = FALSE, !.reason = "error"]
  ELSE finalizeResult_GitWins(result, workspace, detectFileChanges)

finalizeResult(result, workspace, detectFileChanges) ==
  IF ~detectFileChanges THEN result
  ELSE IF Len(result.filesModified) > 0 THEN result
  ELSE IF workspace.status = None THEN result
  ELSE LET files == parseGitStatusFiles(Get(workspace.status))
       IN IF Len(files) > 0
          THEN [result EXCEPT !.filesModified = files, !.summary = buildSummary(files)]
          ELSE LET committed == getCommittedFiles(workspace)
               IN IF committed = None THEN result
                  ELSE IF Len(Get(committed)) > 0
                  THEN [result EXCEPT !.filesModified = Get(committed),
                                      !.summary = buildSummary(Get(committed))]
                  ELSE result

\* ------------------------------------------------ agent runner: one invocation

\* abortController.signal.aborted: only the deadline timer aborts
Aborted(r) == r.timedOut

ClearTimeout(r) == [r EXCEPT !.timer = IF @ = "armed" THEN "cleared" ELSE @]

ResultOf_AlwaysSuccess(r, success, reason, error) ==
  [success |-> TRUE, sessionId |-> SessionId, reason |-> reason,
   filesModified |-> r.filesModified, summary |-> buildSummary(r.filesModified),
   answer |-> IF r.lastAssistantMessage = <<>> THEN None ELSE Some(r.lastAssistantMessage),
   error |-> error]

ResultOf(r, success, reason, error) ==
  [success |-> success, sessionId |-> SessionId, reason |-> reason,
   filesModified |-> r.filesModified, summary |-> buildSummary(r.filesModified),
   answer |-> IF r.lastAssistantMessage = <<>> THEN None ELSE Some(r.lastAssistantMessage),
   error |-> error]

\* `return await finalizeResult(...)` followed by the finally block
Return(r, result, workspace) ==
  [ClearTimeout(r) EXCEPT
     !.pc = "returned",
     !.finalizing = Some(result),
     !.inspected = IF QueriesWorkspace(result, rOptions.detectFileChanges)
                   THEN Some(workspace) ELSE None,
     !.result = Some(finalizeResult(result, workspace, rOptions.detectFileChanges))]

\* an exception leaving runSandboxAgent
Throw(r, error) == [ClearTimeout(r) EXCEPT !.pc = "threw", !.thrown = Some(error)]

\* the statements after the while loop
AfterLoop(r, workspace) ==
  IF r.timedOut
  THEN [r EXCEPT !.pc = "terminate", !.terminateCalls = @ + 1]
  ELSE Return(r, [ResultOf(r, FALSE, "terminated", None) EXCEPT
                    !.summary = [text |-> "Session ended unexpectedly", files |-> <<>>]],
              workspace)

\* the latch checks and the backoff after pollEvents returned null
LatchCheck(r, workspace) ==
  IF r.sawFailed
  THEN Return(r, ResultOf(r, FALSE, "error", Some("Agent reported a failed item")), workspace)
  ELSE IF r.sawCompleted
  THEN Return(r, ResultOf(r, TRUE, "completed", None), workspace)
  ELSE [r EXCEPT !.pc = "delay"]

\* the loop test of pollEvents
PollLoopTest(r, workspace) ==
  IF r.hasMore /\ ~Aborted(r)
  THEN [r EXCEPT !.pc = "poll", !.mode = "poll", !.pollArg = r.offset]
  ELSE LatchCheck(r, workspace)

\* `await pollEvents()`
pollEvents(r, workspace) == PollLoopTest([r EXCEPT !.hasMore = TRUE], workspace)

LoopTop_StreamsAgain(r, workspace) ==
  IF Aborted(r) THEN AfterLoop(r, workspace)
  ELSE [r EXCEPT !.sentTurn = TRUE, !.pc = "stream", !.mode = "stream",
                 !.turns = IF @ < 2 THEN @ + 1 ELSE @]

\* the loop test of the while loop and the start of its body
LoopTop(r, workspace) ==
  IF Aborted(r) THEN AfterLoop(r, workspace)
  ELSE IF ~r.sentTurn
  THEN [r EXCEPT !.sentTurn = TRUE, !.pc = "stream", !.mode = "stream", !.turns = @ + 1]
  ELSE pollEvents(r, workspace)

OuterCatch_AlwaysRethrow(r, error) == Throw(r, error)

\* catch (error) of the outer try
OuterCatch(r, error) ==
  IF r.timedOut
  THEN [r EXCEPT !.pc = "terminate", !.terminateCalls = @ + 1, !.caught = Some(error)]
  ELSE Throw(r, error)

\* catch (error) around the for-await over the stream
InnerCatch_FallsBackOnAny(r, error, workspace) ==
  IF Aborted(r) THEN AfterLoop([r EXCEPT !.streamError = Some(error)], workspace)
  ELSE pollEvents([r EXCEPT !.streamError = Some(error), !.fellBack = TRUE], workspace)

InnerCatch(r, error, workspace) ==
  IF Aborted(r) THEN AfterLoop([r EXCEPT !.streamError = Some(error)], workspace)
  ELSE IF ~isRetryableStreamError(error)
  THEN OuterCatch([r EXCEPT !.streamError = Some(error)], error)
  ELSE pollEvents([r EXCEPT !.streamError = Some(error), !.fellBack = TRUE], workspace)

\* an error thrown by an awaited call, by where the runner is
Raise(r, error, workspace) ==
  IF r.mode = "stream" THEN InnerCatch(r, error, workspace) ELSE OuterCatch(r, error)

RECURSIVE TrackFiles_WritesOnly(_, _)
TrackFiles_WritesOnly(content, files) ==
  IF content = <<>> THEN files
  ELSE LET part == Head(content)
       IN IF /\ part.type = "file_ref"
             /\ part.action = "write"
          THEN TrackFiles_WritesOnly(Tail(content), Append(files, part.path))
          ELSE TrackFiles_WritesOnly(Tail(content), files)

RECURSIVE TrackFiles(_, _)
TrackFiles(content, files) ==
  IF content = <<>> THEN files
  ELSE LET part == Head(content)
       IN IF /\ part.type = "file_ref"
             /\ part.action \in {"write", "patch"}
             /\ ~Includes(files, part.path)
          THEN TrackFiles(Tail(content), Append(files, part.path))
          ELSE TrackFiles(Tail(content), files)

\* the progress updates of one completed item; sinceLast = Date.now() - lastProgressTime
\* an onProgress call: its type, the Date.now() it was decided at and the number
\* of the event that caused it
Update(r, type, at) == [type |-> type, at |-> at, event |-> r.offset]

ToolProgress(r, content, sinceLast) ==
  SelectSeq([i \in 1..Len(content) |->
               IF /\ RunConfig.includeToolCalls
                  /\ content[i].type = "tool_call"
                  /\ sinceLast > RunConfig.progressIntervalMs
               THEN Update(r, "tool", r.lastProgressTime + sinceLast)
               ELSE Update(r, "none", 0)],
            LAMBDA u : u.type = "tool")

handleItemCompleted(r, event, sinceLast) ==
  IF event.data.item = None THEN r
  ELSE LET content == Get(event.data.item).content
       IN [r EXCEPT !.filesModified = TrackFiles(content, @),
                    !.progressLeft = ToolProgress(r, content, sinceLast)]

RECURSIVE JoinText(_)
JoinText(parts) == IF parts = <<>> THEN <<>> ELSE Head(parts).text \o JoinText(Tail(parts))

AssistantText(item) == JoinText(SelectSeq(item.content, LAMBDA part : part.type = "text"))

RejectQuestionCall_Skipped(r, qData) == r

\* the question.requested case of handleEvent up to its rejectQuestion call
RejectQuestionCall(r, qData) ==
  [r EXCEPT !.pc = "rejectQuestion",
            !.pending = Some([id |-> qData.question_id, reply |-> "reject"])]

\* handleEvent up to its first await on the runtime, or to its return
handleEvent(r, event, sinceLast, workspace) ==
  CASE event.type = "session.started" ->
         [r EXCEPT !.progressLeft = <<Update(r, "status", r.lastProgressTime)>>]
    [] event.type = "item.completed" ->
         LET r1 == [handleItemCompleted(r, event, sinceLast) EXCEPT
                      !.lastProgressTime = r.lastProgressTime + sinceLast]
         IN IF event.data.item = None THEN r1
            ELSE LET item == Get(event.data.item)
                     r2 == [r1 EXCEPT !.sawFailed = @ \/ item.status = "failed",
                                      !.sawCompleted = @ \/ item.status = "completed"]
                 IN IF /\ item.kind = "message" /\ item.role = "assistant"
                       /\ Trim(AssistantText(item)) # <<>>
                    THEN [r2 EXCEPT !.lastAssistantMessage = Trim(AssistantText(item))]
                    ELSE r2
    [] event.type = "permission.requested" ->
         LET call == PermissionReplyCall(event.data, rOptions.permissionPolicy)
         IN IF call.threw THEN Raise(r, Errors.typeError, workspace)
            ELSE [r EXCEPT !.pc = "replyPermission",
                           !.pending = Some([id |-> call.id, reply |-> call.reply])]
    [] event.type = "question.requested" -> RejectQuestionCall(r, event.data)
    [] event.type = "session.ended" ->
         Return(ClearTimeout(r),
                ResultOf(r, event.data.reason = "completed", event.data.reason,
                         event.data.message),
                workspace)
    [] OTHER -> r

\* what follows a handleEvent that returned null
AfterEvent(r, workspace) ==
  IF r.mode = "stream" THEN [r EXCEPT !.pc = "stream"]
  ELSE LET r1 == [r EXCEPT !.pageLeft = @ - 1]
       IN IF r1.pageLeft > 0 THEN [r1 EXCEPT !.pc = "page"]
          ELSE PollLoopTest(r1, workspace)

InvokeProgress_NotAwaited(r, workspace) ==
  AfterEvent([r EXCEPT !.progress = @ \o r.progressLeft, !.progressLeft = <<>>,
                       !.inFlight = IF r.progressLeft = <<>> THEN @ ELSE 1],
             workspace)

\* `await onProgress(update)` for the next update of the event, if there is one
InvokeProgress(r, workspace) ==
  IF r.progressLeft = <<>> THEN AfterEvent([r EXCEPT !.inFlight = 0], workspace)
  ELSE [r EXCEPT !.progress = Append(@, Head(r.progressLeft)),
                 !.progressLeft = Tail(@),
                 !.inFlight = 1,
                 !.pc = "onProgress"]

Consume_OffsetKept(r, index, sinceLast, workspace) ==
  LET r1 == handleEvent([r EXCEPT !.handled = Append(@, index)],
                        rLog[index], sinceLast, workspace)
  IN IF r1.pc # r.pc THEN r1 ELSE InvokeProgress(r1, workspace)

\* `offset += 1; const result = await handleEvent(event); if (result) return result`
\* for the event at position `index` of the session. The awaits on onProgress
\* inside handleEvent are taken after its other effects; nothing reads them
\* in between.
Consume(r, index, sinceLast, workspace) ==
  LET r1 == handleEvent([r EXCEPT !.offset = @ + 1, !.handled = Append(@, index)],
                        rLog[index], sinceLast, workspace)
  IN IF r1.pc # r.pc THEN r1 ELSE InvokeProgress(r1, workspace)

\* Date.now() - lastProgressTime: the whole epoch before the first completed item
SinceLastPool(r) ==
  IF r.lastProgressTime = 0 THEN {NowMs - r.lastProgressTime}
  ELSE {RunConfig.progressIntervalMs - 10000, RunConfig.progressIntervalMs + 1}

POLL_LIMIT == 100

\* ------------------------------------------------ agent runner: steps

RunInit ==
  /\ rLog \in EventLogs
  /\ rOptions \in RunOptionsPool
  /\ run = NewRun
  /\ MatchIdle
  /\ WebhookIdle
  /\ PermIdle
  /\ ExtIdle

\* `await getClient(sandboxConfig)` resolves
GetClientResolves ==
  /\ run.pc = "getClient"
  /\ run' = [run EXCEPT !.pc = "createSession"]
  /\ UNCHANGED <<rLog, rOptions>>
  /\ UNCHANGED <<matchVars, webhookVars, permVars, extVars>>

GetClientFails ==
  /\ run.pc = "getClient"
  /\ run' = Throw(run, Errors.fatal)
  /\ UNCHANGED <<rLog, rOptions>>
  /\ UNCHANGED <<matchVars, webhookVars, permVars, extVars>>

\* `await createSession(...)` resolves: the timer is armed and the loop is entered
CreateSessionResolves ==
  /\ run.pc = "createSession"
  /\ \E workspace \in WorkspacePool :
       run' = LoopTop([run EXCEPT !.timer = "armed"], workspace)
  /\ UNCHANGED <<rLog, rOptions>>
  /\ UNCHANGED <<matchVars, webhookVars, permVars, extVars>>

CreateSessionFails ==
  /\ run.pc = "createSession"
  /\ \E error \in {Errors.refused, Errors.fatal} : run' = Throw(run, error)
  /\ UNCHANGED <<rLog, rOptions>>
  /\ UNCHANGED <<matchVars, webhookVars, permVars, extVars>>

\* the setTimeout callback
TimerFires ==
  /\ run.timer = "armed"
  /\ run' = [run EXCEPT !.timer = "fired", !.timedOut = TRUE]
  /\ UNCHANGED <<rLog, rOptions>>
  /\ UNCHANGED <<matchVars, webhookVars, permVars, extVars>>

\* the stream yields the next event of the session
StreamYields ==
  /\ run.pc = "stream"
  /\ run.streamed < Len(rLog)
  /\ \E workspace \in WorkspacePool : \E sinceLast \in SinceLastPool(run) :
       LET r == [run EXCEPT !.streamed = @ + 1]
       IN run' = IF Aborted(r) THEN pollEvents(r, workspace)
                 ELSE Consume(r, r.streamed, sinceLast, workspace)
  /\ UNCHANGED <<rLog, rOptions>>
  /\ UNCHANGED <<matchVars, webhookVars, permVars, extVars>>

\* the stream closes without an error
StreamEnds ==
  /\ run.pc = "stream"
  /\ \E workspace \in WorkspacePool :
       run' = pollEvents([run EXCEPT !.streamDone = TRUE], workspace)
  /\ UNCHANGED <<rLog, rOptions>>
  /\ UNCHANGED <<matchVars, webhookVars, permVars, extVars>>

\* the stream rejects; an AbortError only once the signal is aborted
StreamFails ==
  /\ run.pc = "stream"
  /\ \E workspace \in WorkspacePool :
     \E error \in {Errors.unable, Errors.timeout, Errors.fatal}
                     \cup (IF Aborted(run) THEN {Errors.abort} ELSE {}) :
       run' = InnerCatch(run, error, workspace)
  /\ UNCHANGED <<rLog, rOptions>>
  /\ UNCHANGED <<matchVars, webhookVars, permVars, extVars>>

\* getEvents answers with the next `count` events and a hasMore flag
GetEventsResolves ==
  /\ run.pc = "poll"
  /\ \E workspace \in WorkspacePool : \E hasMore \in BOOLEAN :
     \E count \in 0..Min({Len(rLog) - run.pollArg, POLL_LIMIT}) :
       run' = IF count = 0 THEN LatchCheck([run EXCEPT !.hasMore = hasMore], workspace)
              ELSE [run EXCEPT !.pc = "page", !.pageLeft = count, !.pageSize = count,
                               !.hasMore = hasMore]
  /\ UNCHANGED <<rLog, rOptions>>
  /\ UNCHANGED <<matchVars, webhookVars, permVars, extVars>>

GetEventsFails ==
  /\ run.pc = "poll"
  /\ \E error \in {Errors.refused, Errors.fatal} : run' = OuterCatch(run, error)
  /\ UNCHANGED <<rLog, rOptions>>
  /\ UNCHANGED <<matchVars, webhookVars, permVars, extVars>>

\* the next event of the fetched page is handled
HandlePolled ==
  /\ run.pc = "page"
  /\ \E workspace \in WorkspacePool : \E sinceLast \in SinceLastPool(run) :
       run' = Consume(run, run.pollArg + (run.pageSize - run.pageLeft) + 1,
                      sinceLast, workspace)
  /\ UNCHANGED <<rLog, rOptions>>
  /\ UNCHANGED <<matchVars, webhookVars, permVars, extVars>>

ReplyDelivered_RejectionFails(r) ==
  [r EXCEPT !.replies = Append(@, [call |-> r.pc, id |-> Get(r.pending).id,
                                   reply |-> Get(r.pending).reply]),
            !.pending = None,
            !.sawFailed = @ \/ Get(r.pending).reply = "reject"]

\* the runtime has taken the reply; handleEvent returns null
ReplyDelivered(r) ==
  [r EXCEPT !.replies = Append(@, [call |-> r.pc, id |-> Get(r.pending).id,
                                   reply |-> Get(r.pending).reply]),
            !.pending = None]

\* replyPermission / rejectQuestion resolves
ReplyResolves ==
  /\ run.pc \in {"replyPermission", "rejectQuestion"}
  /\ \E workspace \in WorkspacePool :
       run' = AfterEvent(ReplyDelivered(run), workspace)
  /\ UNCHANGED <<rLog, rOptions>>
  /\ UNCHANGED <<matchVars, webhookVars, permVars, extVars>>

ReplyFails ==
  /\ run.pc \in {"replyPermission", "rejectQuestion"}
  /\ \E workspace \in WorkspacePool : \E error \in {Errors.refused, Errors.fatal} :
       run' = Raise([run EXCEPT !.pending = None], error, workspace)
  /\ UNCHANGED <<rLog, rOptions>>
  /\ UNCHANGED <<matchVars, webhookVars, permVars, extVars>>

\* the onProgress call being awaited resolves (the callbacks of the callers
\* catch their own errors)
ProgressResolves ==
  /\ run.pc = "onProgress"
  /\ \E workspace \in WorkspacePool : run' = InvokeProgress(run, workspace)
  /\ UNCHANGED <<rLog, rOptions>>
  /\ UNCHANGED <<matchVars, webhookVars, permVars, extVars>>

\* delay(1000) is over
DelayElapses ==
  /\ run.pc = "delay"
  /\ \E workspace \in WorkspacePool :
       run' = LoopTop([run EXCEPT !.backedOff = TRUE], workspace)
  /\ UNCHANGED <<rLog, rOptions>>
  /\ UNCHANGED <<matchVars, webhookVars, permVars, extVars>>

TimeoutResult(r) ==
  ResultOf(r, FALSE, "timeout",
           Some(IF r.caught = None THEN "Timeout - session terminated"
                ELSE "Timeout - error message"))

\* terminateSession resolves or rejects: the rejection is logged only
TerminateResolves ==
  /\ run.pc = "terminate"
  /\ \E workspace \in WorkspacePool :
       run' = Return([run EXCEPT !.terminated = TRUE], TimeoutResult(run), workspace)
  /\ UNCHANGED <<rLog, rOptions>>
  /\ UNCHANGED <<matchVars, webhookVars, permVars, extVars>>

TerminateFails ==
  /\ run.pc = "terminate"
  /\ \E workspace \in WorkspacePool : run' = Return(run, TimeoutResult(run), workspace)
  /\ UNCHANGED <<rLog, rOptions>>
  /\ UNCHANGED <<matchVars, webhookVars, permVars, extVars>>

RunNext ==
  \/ GetClientResolves
  \/ GetClientFails
  \/ CreateSessionResolves
  \/ CreateSessionFails
  \/ TimerFires
  \/ StreamYields
  \/ StreamEnds
  \/ StreamFails
  \/ GetEventsResolves
  \/ GetEventsFails
  \/ HandlePolled
  \/ ReplyResolves
  \/ ReplyFails
  \/ ProgressResolves
  \/ DelayElapses
  \/ TerminateResolves
  \/ TerminateFails

RunSpec == RunInit /\ [][RunNext]_vars

\* Timers fire, the backoff ends, the client is local and the stream, which is
\* given the abort signal, settles once the signal is aborted. The calls that are
\* given no signal (createSession, getEvents, replyPermission, rejectQuestion,
\* terminateSession) are answered only if the agent runtime answers.
StreamSettlesAfterAbort ==
  Aborted(run) /\ (StreamYields \/ StreamEnds \/ StreamFails)

RunFairSpec ==
  /\ RunSpec
  /\ WF_vars(GetClientResolves \/ GetClientFails)
  /\ WF_vars(TimerFires)
  /\ WF_vars(DelayElapses)
  /\ WF_vars(StreamSettlesAfterAbort)
  /\ WF_vars(HandlePolled)
  /\ WF_vars(ProgressResolves)

\* the same, with an agent runtime that answers every call
RunResponsiveSpec ==
  /\ RunFairSpec
  /\ WF_vars(CreateSessionResolves \/ CreateSessionFails)
  /\ WF_vars(GetEventsResolves \/ GetEventsFails)
  /\ WF_vars(ReplyResolves \/ ReplyFails)
  /\ WF_vars(TerminateResolves \/ TerminateFails)

\* ------------------------------------------------ claims on the runner

Finished == run.pc \in {"returned", "threw"}

\* C2: when the deadline timer expires before a session.ended event was handled,
\* the run returns success = false with reason 'timeout', wherever the expiry
\* happened and whatever item statuses were seen before.
C2_ExpiredDeadlineGivesTimeout ==
  (run.pc = "returned" /\ run.timedOut)
    => (Get(run.result).reason = "timeout" /\ ~Get(run.result).success)

\* C3: every invocation eventually settles (a result is handed back, or an error
\* is thrown): the caller is never left waiting indefinitely.
C3_EventuallySettles == <>Finished

Handles(type) ==
  /\ run'.offset = run.offset + 1
  /\ rLog[run'.offset].type = type

\* C13: a question.requested event is answered in the step that handles it, by
\* calling rejectQuestion for its question id; nothing else is awaited for it.
C13_QuestionsRejectedAtOnce ==
  [][Handles("question.requested")
       => /\ run'.pc = "rejectQuestion"
          /\ run'.pending = Some([id |-> rLog[run'.offset].data.question_id,
                                   reply |-> "reject"])]_vars

\* a question was rejected and the run went on to its result
C13_Witness ==
  /\ run.pc = "returned"
  /\ \E i \in 1..Len(run.replies) :
       run.replies[i] = [call |-> "rejectQuestion", id |-> "q1", reply |-> "reject"]
  /\ rLog[1].type = "question.requested"
  /\ run.offset = 2

\* the step delivers the reply 'reject' to a permission request
RejectionDelivered ==
  /\ run.pc = "replyPermission"
  /\ Get(run.pending).reply = "reject"
  /\ Len(run'.replies) = Len(run.replies) + 1

\* C14: delivering a 'reject' reply neither throws nor changes what the result is
\* made of; the run goes on consuming events, or returns the result its latches
\* already determined.
C14_RejectionIsNotAFailure ==
  [][RejectionDelivered
       => /\ run'.sawFailed = run.sawFailed
          /\ run'.sawCompleted = run.sawCompleted
          /\ run'.filesModified = run.filesModified
          /\ run'.lastAssistantMessage = run.lastAssistantMessage
          /\ run'.offset = run.offset
          /\ run'.pc \in {"stream", "page", "poll", "delay", "returned"}
          /\ (run'.pc = "returned")
               => /\ run.sawFailed \/ run.sawCompleted
                  /\ Get(run'.result).reason = (IF run.sawFailed THEN "error" ELSE "completed")
                  /\ Get(run'.result).success = ~run.sawFailed]_vars

\* after a rejection a later event was handled and the run ended in success
C14_Witness ==
  /\ run.pc = "returned"
  /\ Get(run.result).success
  /\ rLog[1].type = "permission.requested"
  /\ run.replies = <<[call |-> "replyPermission", id |-> "p1", reply |-> "reject"]>>
  /\ run.offset = 2

\* the run returned from handling a session.ended event
EndedBySessionEnded ==
  /\ run.pc = "returned"
  /\ run.offset > 0
  /\ rLog[run.offset].type = "session.ended"

\* C15: every returned result has success = TRUE exactly when its reason is
\* 'completed'; a run that ends through a session.ended event returns that
\* event's reason.
C15_SuccessIffCompleted ==
  (run.pc = "returned") =>
    /\ Get(run.result).success = (Get(run.result).reason = "completed")
    /\ EndedBySessionEnded => Get(run.result).reason = rLog[run.offset].data.reason

\* a session that ended with reason 'error' was returned as such
C15_Witness ==
  /\ EndedBySessionEnded
  /\ rLog[run.offset] = Events.endedError
  /\ Get(run.result).reason = "error"
  /\ ~Get(run.result).success

\* C16: a run whose deadline timer fired has requested the termination of the
\* session exactly once when it hands its outcome back.
C16_TimedOutTerminatesOnce ==
  (Finished /\ run.timedOut) => run.terminateCalls = 1

\* the events handled so far are the first ones of the session, each once and in
\* the order of the session
HandledOnceInOrder ==
  /\ run.offset = Len(run.handled)
  /\ \A i \in 1..Len(run.handled) : run.handled[i] = i

\* the step in which a retryable stream error is caught asks getEvents for the
\* events from the current offset on
FallsBackToPolling ==
  (~run.fellBack /\ run'.fellBack)
    => /\ run'.pc = "poll"
       /\ run'.mode = "poll"
       /\ run'.pollArg = run.offset
       /\ run'.offset = run.offset

UncommittedPaths(workspace) ==
  IF workspace.status = None THEN <<>> ELSE parseGitStatusFiles(Get(workspace.status))

ChangedAgainstUpstream(workspace) ==
  IF workspace.status = None \/ getCommittedFiles(workspace) = None THEN <<>>
  ELSE Get(getCommittedFiles(workspace))

\* C18: the filesModified of a returned result is the list tracked from the
\* agent's events, unless that list is empty and detectFileChanges is set: then
\* it is the workspace's uncommitted paths if there are any, otherwise the paths
\* changed against the default upstream branch if there are any, otherwise still
\* empty. The workspace is inspected in that case only.
C18_FinalizeFillsOnlyEmptyList ==
  (run.pc = "returned") =>
    LET files == Get(run.result).filesModified
    IN IF run.filesModified # <<>> \/ ~rOptions.detectFileChanges
       THEN files = run.filesModified /\ run.inspected = None
       ELSE /\ run.inspected # None
            /\ LET workspace == Get(run.inspected)
               IN files = IF UncommittedPaths(workspace) # <<>>
                          THEN UncommittedPaths(workspace)
                          ELSE ChangedAgainstUpstream(workspace)

\* the agent reported a written file, detectFileChanges is set, and the result
\* keeps the agent's list
C18_Witness ==
  /\ run.pc = "returned"
  /\ rOptions.detectFileChanges
  /\ run.filesModified = <<Text.pathA>>
  /\ Get(run.result).filesModified = run.filesModified

\* nothing reported by the agent, nothing uncommitted: the committed paths are used
C18_WitnessCommitted ==
  /\ run.pc = "returned"
  /\ run.filesModified = <<>>
  /\ run.inspected # None
  /\ UncommittedPaths(Get(run.inspected)) = <<>>
  /\ Get(run.result).filesModified # <<>>

\* the onProgress calls made so far for tool calls, in the order they were made
ToolUpdates == SelectSeq(run.progress, LAMBDA u : u.type = "tool")

\* C19: apart from the update for session.started, two invocations of the
\* progress callback in one run are at least the progress interval apart,
\* however many events and tool calls arrive.
C19_OneUpdatePerInterval ==
  \A i, j \in DOMAIN ToolUpdates :
    i < j => ToolUpdates[j].at - ToolUpdates[i].at >= RunConfig.progressIntervalMs

\* C20: the progress callback is invoked in the order of the events that caused
\* the updates, one call at a time with the run suspended on it, and when
\* runSandboxAgent has settled no call is in flight and no update of a handled
\* event is still to be sent: whatever the caller posts after the return follows
\* every progress update of the run.
C20_ProgressInOrderNoneAfterReturn ==
  /\ \A i, j \in DOMAIN run.progress :
       i < j => run.progress[i].event <= run.progress[j].event
  /\ (run.inFlight = 1) <=> (run.pc = "onProgress")
  /\ run.inFlight \in {0, 1}
  /\ Finished => (run.inFlight = 0 /\ run.progressLeft = <<>>)

\* a run that sent the session-start update and later a tool update has returned
C20_Witness ==
  /\ run.pc = "returned"
  /\ Len(run.progress) >= 2
  /\ run.progress[1].type = "status"
  /\ run.progress[Len(run.progress)].type = "tool"
  /\ run.progress[1].event < run.progress[Len(run.progress)].event

\* C26: once the deadline timer has fired no further event is handled, neither
\* from the live stream nor from a page getEvents has already answered with.
C26_NoEventHandledAfterDeadline ==
  [][run.timedOut => run'.handled = run.handled]_vars

\* C27: a run in which an item with status 'failed' was handled returns
\* success = FALSE, whatever was handled after that item.
C27_FailedItemGivesFailure ==
  (run.pc = "returned" /\ run.sawFailed) => ~Get(run.result).success

\* the run returned from the latch check on sawCompleted
CompletedByLatch ==
  /\ run.pc = "returned"
  /\ ~EndedBySessionEnded
  /\ Get(run.result).reason = "completed"

\* C28: a run that saw a completed item and no failed one, and that returns
\* before the deadline without having handled session.ended, returns
\* success = TRUE with reason 'completed'; and a run that returns 'completed'
\* from the latch check has handled every event the stream handed to it.
C28_LatchCompletesOnlyWhenDrained ==
  /\ (/\ run.pc = "returned" /\ ~EndedBySessionEnded
      /\ run.sawCompleted /\ ~run.sawFailed /\ ~run.timedOut)
       => (Get(run.result).success /\ Get(run.result).reason = "completed")
  /\ CompletedByLatch => run.streamed <= Len(run.handled)

\* C29: a run whose stream closed, that never handled session.ended and set no
\* latch, returns success = FALSE with reason 'terminated' and carries the
\* files and the answer accumulated so far.
C29_ClosedStreamGivesTerminated ==
  (/\ run.pc = "returned" /\ run.streamDone
   /\ ~EndedBySessionEnded /\ ~run.sawFailed /\ ~run.sawCompleted)
    => /\ Get(run.result).reason = "terminated"
       /\ ~Get(run.result).success
       /\ Get(run.result).filesModified = run.filesModified
       /\ Get(run.result).answer = IF run.lastAssistantMessage = <<>> THEN None
                                   ELSE Some(run.lastAssistantMessage)

\* no run returns the result built after the loop for a loop left without a
\* fired deadline
FallbackNeverReturned ==
  (run.pc = "returned") => Get(run.result).reason # "terminated"

\* the backoff is over and the run goes on
BackoffEnds == run.pc = "delay" /\ run'.pc # "delay"

\* C30 (as claimed): when the backoff after an unsuccessful poll pass is over
\* and the deadline has not fired, the run streams again.
C30_StreamsAgainAfterBackoff ==
  [][(BackoffEnds /\ ~run.timedOut) => run'.pc = "stream"]_vars

\* C30 (amended): when the backoff is over the run polls again from the current
\* offset, or leaves the loop if the deadline has fired; the stream is opened
\* once per run, and a run that has started polling never streams again.
C30_PollsAgainAfterBackoff ==
  /\ [][BackoffEnds =>
          IF run.timedOut THEN run'.pc = "terminate"
          ELSE run'.pc = "poll" /\ run'.pollArg = run.offset /\ run'.offset = run.offset]_vars
  /\ [][run.mode = "poll" => run'.mode = "poll"]_vars
  /\ [](run.mode = "poll" => run.pc # "stream")
  /\ [](run.backedOff => run.pc # "stream")

\* the stream failed with a retryable error, a poll pass found nothing, and after
\* the backoff getEvents is being asked again
C30_Witness ==
  /\ run.fellBack
  /\ run.backedOff
  /\ ~run.timedOut
  /\ run.pc = "poll"

\* the last event handled is a completed item with a tool call in it
ToolItemHandledLast ==
  /\ run.handled # <<>>
  /\ rLog[Len(run.handled)].type = "item.completed"
  /\ rLog[Len(run.handled)].data.item # None
  /\ \E i \in DOMAIN Get(rLog[Len(run.handled)].data.item).content :
       Get(rLog[Len(run.handled)].data.item).content[i].type = "tool_call"

\* when onProgress was last invoked for a tool call of an earlier event; the
\* epoch when it never was
PreviousUpdateAt ==
  LET before == SelectSeq(ToolUpdates, LAMBDA u : u.event < Len(run.handled))
  IN IF before = <<>> THEN 0 ELSE before[Len(before)].at

\* C25: with includeToolCalls set, a completed item that holds a tool call and is
\* handled at least progressIntervalMs after the previous tool update (or with
\* none before it) causes a tool update.
C25_UpdateOnceIntervalElapsed ==
  (RunConfig.includeToolCalls /\ ToolItemHandledLast
   /\ run.lastProgressTime - PreviousUpdateAt >= RunConfig.progressIntervalMs)
    => \E i \in DOMAIN ToolUpdates : ToolUpdates[i].event = Len(run.handled)

\* ------------------------------------------------ the dedup key on its own

\* the linear-delivery header (absent, empty or set) and the fields of the
\* parsed payload
KeyInputs ==
  [deliveryId : {None, Some(""), Some("d1")},
   webhookId : {None, Some(""), Some("w1")},
   type : {"Issue", "Comment"},
   action : {"create", "update", "remove"},
   dataId : {"i1", "i2", "c1"}]

KeyInit ==
  /\ kInput \in KeyInputs
  /\ kKey = None
  /\ MatchIdle /\ WebhookIdle /\ PermIdle /\ RunIdle /\ ConfigIdle /\ GithubIdle /\ WorktreeIdle /\ ClientIdle /\ RateIdle

\* `const dedupKey = ...` of webhookHandler
ComputeKey ==
  /\ kKey = None
  /\ kKey' = Some(DedupKeyOf(kInput.deliveryId, kInput.webhookId, kInput.type,
                             kInput.action, kInput.dataId))
  /\ UNCHANGED kInput
  /\ UNCHANGED <<matchVars, webhookVars, permVars, runVars, configVars, githubVars, worktreeVars, clientVars, rateVars>>

KeyNext == ComputeKey

KeySpec == KeyInit /\ [][KeyNext]_vars

\* C23: the dedup key is built from the delivery id when the request carries one,
\* and otherwise from (type, action, data.id) and nothing else.
C23_KeyIsDeliveryIdOrComposite ==
  IsSome(kKey) =>
    Get(kKey) = IF IsSome(kInput.deliveryId) /\ Get(kInput.deliveryId) # ""
                THEN "delivery:" \o Get(kInput.deliveryId)
                ELSE kInput.type \o ":" \o kInput.action \o ":" \o kInput.dataId

\* ------------------------------------------------ configuration load

\* the triggers TriggerSchema lets through: every type with every action shown,
\* with and without an agent, with and without `on`
ConfigTriggerPool ==
  [type : {"label", "hashtag", "mention"},
   value : {Str_a},
   action : {"quick", "reply", "review", "github"},
   agent : {None, Some("claude")},
   on : {None, Some(<<"create", "update">>)}]

validateTriggers_GithubUnchecked(triggers) ==
  LET ErrorsOf(trigger) ==
        (IF trigger.type = "mention" /\ trigger.action # "reply"
         THEN <<"Mention trigger must use action reply">> ELSE <<>>)
        \o (IF trigger.type = "mention" /\ trigger.agent = None
            THEN <<"Mention trigger requires agent">> ELSE <<>>)
        \o (IF trigger.action = "reply" /\ trigger.type # "mention"
            THEN <<"Action reply is only supported for trigger type mention">> ELSE <<>>)
        \o (IF trigger.action = "review" /\ trigger.type # "label"
            THEN <<"Action review is only supported for trigger type label">> ELSE <<>>)
      RECURSIVE Collect(_)
      Collect(rest) == IF rest = <<>> THEN <<>> ELSE ErrorsOf(Head(rest)) \o Collect(Tail(rest))
  IN Collect(triggers)

\* the messages validateTriggers pushes, in order
validateTriggers(triggers) ==
  LET ErrorsOf(trigger) ==
        (IF trigger.type = "mention" /\ trigger.action # "reply"
         THEN <<"Mention trigger must use action reply">> ELSE <<>>)
        \o (IF trigger.type = "mention" /\ trigger.agent = None
            THEN <<"Mention trigger requires agent">> ELSE <<>>)
        \o (IF trigger.action = "reply" /\ trigger.type # "mention"
            THEN <<"Action reply is only supported for trigger type mention">> ELSE <<>>)
        \o (IF trigger.action = "review" /\ trigger.type # "label"
            THEN <<"Action review is only supported for trigger type label">> ELSE <<>>)
        \o (IF trigger.action = "github" /\ trigger.type # "label"
            THEN <<"Action github is only supported for trigger type label">> ELSE <<>>)
        \o (IF /\ trigger.type \in {"mention", "hashtag"}
               /\ trigger.on # None
               /\ \E i \in DOMAIN Get(trigger.on) : Get(trigger.on)[i] # "create"
            THEN <<"trigger only supports on: [create]">> ELSE <<>>)
      RECURSIVE Collect(_)
      Collect(rest) == IF rest = <<>> THEN <<>> ELSE ErrorsOf(Head(rest)) \o Collect(Tail(rest))
  IN Collect(triggers)

\* the triggers used when none are configured
DefaultTriggers ==
  LET Label(value, action, agent) ==
        [type |-> "label", value |-> value, action |-> action, agent |-> agent,
         on |-> Some(<<"create", "update">>)]
      Mention(value, agent) ==
        [type |-> "mention", value |-> value, action |-> "reply", agent |-> Some(agent),
         on |-> Some(<<"create">>)]
  IN << Label("discovery", "context", None), Label("plan", "plan", None),
        Label("code", "quick", None), Label("claude", "quick", Some("claude")),
        Label("codex", "quick", Some("codex")), Label("review", "review", None),
        Label("guide", "guide", None), Label("github", "github", None),
        Mention("@claude", "claude"), Mention("@codex", "codex") >>

buildDefaultTriggers(triggers) == IF Len(triggers) > 0 THEN triggers ELSE DefaultTriggers

\* loadConfig followed by buildDefaultTriggers, as getConfig runs them: the
\* triggers of the cached configuration, or the error validateConfig throws
loadConfig(triggers) ==
  LET errors == validateTriggers(triggers)
  IN IF Len(errors) > 0
     THEN [ok |-> FALSE, triggers |-> <<>>, errors |-> errors]
     ELSE [ok |-> TRUE, triggers |-> buildDefaultTriggers(triggers), errors |-> <<>>]

ConfigInit ==
  /\ cTriggers \in SeqsUpTo(ConfigTriggerPool, MaxRules)
  /\ cConfig = None
  /\ MatchIdle /\ WebhookIdle /\ PermIdle /\ RunIdle /\ KeyIdle /\ GithubIdle /\ WorktreeIdle /\ ClientIdle /\ RateIdle

\* getConfig() at start-up
GetConfig ==
  /\ cConfig = None
  /\ cConfig' = Some(loadConfig(cTriggers))
  /\ UNCHANGED cTriggers
  /\ UNCHANGED <<matchVars, webhookVars, permVars, runVars, keyVars, githubVars, worktreeVars, clientVars, rateVars>>

ConfigNext == GetConfig

ConfigSpec == ConfigInit /\ [][ConfigNext]_vars

\* what the claim requires of a rule
RuleConforms(rule) ==
  /\ rule.type = "mention" => (rule.action = "reply" /\ rule.agent # None)
  /\ rule.action = "reply" => rule.type = "mention"
  /\ rule.action \in {"review", "github"} => rule.type = "label"

\* C22: every rule of a configuration that was loaded conforms (a mention rule
\* has action reply and an agent; reply only on mention rules; review and github
\* only on label rules), and a configuration file with a rule that does not
\* conform fails to load.
C22_LoadedRulesConform ==
  IsSome(cConfig) =>
    /\ Get(cConfig).ok =>
         \A i \in DOMAIN Get(cConfig).triggers : RuleConforms(Get(cConfig).triggers[i])
    /\ (\E i \in DOMAIN cTriggers : ~RuleConforms(cTriggers[i])) => ~Get(cConfig).ok

\* a file with a mention rule and a github label rule was loaded
C22_Witness ==
  /\ IsSome(cConfig)
  /\ Get(cConfig).ok
  /\ \E i, j \in DOMAIN cTriggers :
       /\ cTriggers[i].type = "mention"
       /\ cTriggers[j].action = "github"
  /\ Get(cConfig).triggers = cTriggers

\* ------------------------------------------------ GitHub webhook handler

\* sample templates, branch names and repository names
GhText ==
  [ placeholder |-> <<"{", "I", "S", "S", "U", "E", "_", "I", "D", "}">>,
    templateDefault |-> <<"f", "i", "x", "/", "{", "I", "S", "S", "U", "E", "_", "I", "D", "}">>,
    templateDotted |-> <<"f", "i", "x", ".", "{", "I", "S", "S", "U", "E", "_", "I", "D", "}">>,
    templatePlain |-> <<"a", "g", "e", "n", "t">>,
    branchOfIssue |-> <<"f", "i", "x", "/", "e", "n", "g", "-", "1">>,
    branchOther |-> <<"f", "i", "x", "e", "s", "-", "9">>,
    branchMain |-> <<"m", "a", "i", "n">>,
    branchNoId |-> <<"f", "i", "x", "/", " ">>,
    repoConfigured |-> <<"O", "r", "g", "/", "R", "e", "p", "o">>,
    repoAsSent |-> <<"o", "r", "g", "/", "r", "e", "p", "o">>,
    repoOther |-> <<"o", "r", "g", "/", "o", "t", "h", "e", "r">>,
    localPath |-> <<"/", "w", "s">>,
    worktrees |-> <<"-", "w", "o", "r", "k", "t", "r", "e", "e", "s", "/">> ]

RegexMetaChars == {".", "*", "+", "?", "^", "$", "{", "}", "(", ")", "|", "[", "\\"}

\* value.replace(/[.*+?^${}()|[\\]\\\\]/g, '\\\\$&'): the expression matches a
\* metacharacter only when two backslashes and "]" follow it
RECURSIVE escapeRegex(_)
escapeRegex(value) ==
  IF value = <<>> THEN <<>>
  ELSE IF /\ Len(value) >= 4
          /\ value[1] \in RegexMetaChars
          /\ SubSeq(value, 2, 4) = <<"\\", "\\", "]">>
  THEN <<"\\", "\\">> \o SubSeq(value, 1, 4) \o escapeRegex(SubSeq(value, 5, Len(value)))
  ELSE <<Head(value)>> \o escapeRegex(Tail(value))

\* the first position of sub in s, 0 when there is none
IndexOfText(s, sub) ==
  LET hits == { i \in 1..Len(s) : i + Len(sub) - 1 <= Len(s)
                                  /\ SubSeq(s, i, i + Len(sub) - 1) = sub }
  IN IF hits = {} THEN 0 ELSE CHOOSE i \in hits : \A j \in hits : i <= j

\* text matches the regular expression source `pattern` from end to end, for
\* sources made of literal characters and "."
PatternMatches(pattern, text) ==
  /\ Len(pattern) = Len(text)
  /\ \A i \in 1..Len(pattern) :
       IF pattern[i] = "." THEN text[i] # "\n" ELSE pattern[i] = text[i]

\* the first two parts of branchTemplate.split('{ISSUE_ID}')
TemplateParts(branchTemplate) ==
  LET at == IndexOfText(branchTemplate, GhText.placeholder)
      rest == SubSeq(branchTemplate, at + Len(GhText.placeholder), Len(branchTemplate))
      next == IndexOfText(rest, GhText.placeholder)
  IN [prefix |-> SubSeq(branchTemplate, 1, at - 1),
      suffix |-> IF next = 0 THEN rest ELSE SubSeq(rest, 1, next - 1)]

parseIssueIdFromBranch(branchName, branchTemplate) ==
  IF ~ContainsText(branchTemplate, GhText.placeholder) THEN None
  ELSE LET prefix == escapeRegex(TemplateParts(branchTemplate).prefix)
           suffix == escapeRegex(TemplateParts(branchTemplate).suffix)
           last == Len(branchName) - Len(suffix)
           middle == SubSeq(branchName, Len(prefix) + 1, last)
       IN IF /\ last - Len(prefix) >= 1
             /\ PatternMatches(prefix, SubSeq(branchName, 1, Len(prefix)))
             /\ PatternMatches(suffix, SubSeq(branchName, last + 1, Len(branchName)))
             /\ \A i \in DOMAIN middle : middle[i] # "\n"
             /\ Trim(middle) # <<>>
          THEN Some(Trim(middle))
          ELSE None

\* issueIdentifier.toLowerCase().replace(/[^a-z0-9._-]+/g, '-')
RECURSIVE normalizeIssueIdentifier(_)
normalizeIssueIdentifier(issueIdentifier) ==
  LET Safe(c) == LowerChar(c) \in ({LowerCaseLetters[i] : i \in 1..26} \cup Digits \cup {".", "_", "-"})
  IN IF issueIdentifier = <<>> THEN <<>>
     ELSE IF Safe(Head(issueIdentifier))
     THEN <<LowerChar(Head(issueIdentifier))>> \o normalizeIssueIdentifier(Tail(issueIdentifier))
     ELSE LET rest == normalizeIssueIdentifier(Tail(issueIdentifier))
          IN IF Len(issueIdentifier) > 1 /\ ~Safe(issueIdentifier[2]) THEN rest
             ELSE <<"-">> \o rest

\* getWorktreeSpec with the default nameTemplate '{WORKSPACE_PATH}-worktrees/{ISSUE_ID}'
\* and a branchTemplate of the form <prefix>{ISSUE_ID}<suffix>
getWorktreeSpec(localPath, issueIdentifier, branchTemplate) ==
  LET issueId == normalizeIssueIdentifier(issueIdentifier)
  IN [path |-> localPath \o GhText.worktrees \o issueId,
      branch |-> IF ContainsText(branchTemplate, GhText.placeholder)
                 THEN TemplateParts(branchTemplate).prefix \o issueId
                        \o TemplateParts(branchTemplate).suffix
                 ELSE branchTemplate,
      issueId |-> issueId]

\* configurations validateGitHubConfig accepts; one repository is configured
GithubConfigs ==
  { c \in [enabled : BOOLEAN, cleanupEnabled : BOOLEAN, hasSecret : BOOLEAN,
           branchTemplate : {GhText.templateDefault, GhText.templateDotted,
                             GhText.templatePlain},
           removeWorktreeOnMerge : BOOLEAN, deleteBranchOnMerge : BOOLEAN] :
      (c.enabled /\ c.cleanupEnabled) => c.hasSecret }

\* the parsed body: None when it is not JSON
GithubPayloads ==
  {None} \cup
  { Some(b) : b \in [action : {"closed", "opened"}, merged : BOOLEAN,
                     repoFullName : {GhText.repoAsSent, GhText.repoOther, <<>>},
                     branch : {GhText.branchOfIssue, GhText.branchOther,
                               GhText.branchMain, GhText.branchNoId, <<>>}] }

GithubRequests ==
  [signatureValid : BOOLEAN, event : {"pull_request", "push"},
   deliveryId : {None, Some("g1")}, payload : GithubPayloads]

\* the value isDuplicateGithubDelivery returns; `deliveries` holds the ids
\* recorded less than GITHUB_DEDUP_WINDOW_MS ago
isDuplicateGithubDelivery(deliveries, deliveryId) == deliveryId \in deliveries

\* the handler gets as far as `deliveryId && isDuplicateGithubDelivery(deliveryId)`
ChecksDelivery(config, req) ==
  config.enabled /\ config.cleanupEnabled /\ config.hasSecret /\ req.deliveryId # None

\* processedGithubDeliveries after the handler: the id is set by the check
DeliveriesAfter(config, req, deliveries) ==
  IF ChecksDelivery(config, req) THEN deliveries \cup {Get(req.deliveryId)}
  ELSE deliveries

\* the handler up to its first git call: the response it returns, or "cleanup"
GithubDecision(config, req, deliveries) ==
  IF ~config.enabled \/ ~config.cleanupEnabled THEN "404 disabled"
  ELSE IF ~config.hasSecret THEN "500 GitHub webhook not configured"
  ELSE IF /\ req.deliveryId # None
          /\ isDuplicateGithubDelivery(deliveries, Get(req.deliveryId))
  THEN "ignored: duplicate_delivery"
  ELSE IF ~req.signatureValid THEN "401 Invalid signature"
  ELSE IF req.payload = None THEN "400 Invalid payload"
  ELSE IF req.event # "pull_request" THEN "ignored: unsupported_event"
  ELSE LET payload == Get(req.payload)
       IN IF payload.action # "closed" \/ ~payload.merged THEN "ignored: not_merged"
          ELSE IF payload.repoFullName = <<>> \/ payload.branch = <<>>
          THEN "ignored: missing_fields"
          ELSE IF ToLowerCase(GhText.repoConfigured) # ToLowerCase(payload.repoFullName)
          THEN "ignored: repo_not_configured"
          ELSE IF parseIssueIdFromBranch(payload.branch, config.branchTemplate) = None
          THEN "ignored: branch_not_mapped"
          ELSE "cleanup"

\* the statements after the worktree part of the cleanup
BranchCleanup(h) ==
  IF /\ gConfig.deleteBranchOnMerge
     /\ parseIssueIdFromBranch(Get(gReq.payload).branch, gConfig.branchTemplate) # None
  THEN [h EXCEPT !.pc = "deleteBranch", !.deleted = Append(@, Get(gReq.payload).branch)]
  ELSE [h EXCEPT !.pc = "done", !.response = "ok: merged"]

GithubInit ==
  /\ gConfig \in GithubConfigs
  /\ gReq \in GithubRequests
  /\ gh = [pc |-> "start", response |-> "", removed |-> <<>>, deleted |-> <<>>,
           deliveries |-> {}, round |-> 1, firstVerified |-> gReq.signatureValid]
  /\ MatchIdle /\ WebhookIdle /\ PermIdle /\ RunIdle /\ KeyIdle /\ ConfigIdle /\ WorktreeIdle /\ ClientIdle /\ RateIdle

\* the handler runs from the request to its response or to its first git call
GithubHandle ==
  /\ gh.pc = "start"
  /\ LET decision == GithubDecision(gConfig, gReq, gh.deliveries)
         h == [gh EXCEPT !.deliveries = DeliveriesAfter(gConfig, gReq, @)]
     IN gh' = IF decision # "cleanup"
              THEN [h EXCEPT !.pc = "done", !.response = decision]
              ELSE IF gConfig.removeWorktreeOnMerge THEN [h EXCEPT !.pc = "listWorktrees"]
              ELSE BranchCleanup(h)
  /\ UNCHANGED <<gConfig, gReq>>
  /\ UNCHANGED <<matchVars, webhookVars, permVars, runVars, keyVars, configVars, worktreeVars, clientVars, rateVars>>

\* `git worktree list` answers: the worktree of the issue is registered, or it
\* is not (the same when the command fails)
WorktreeListed ==
  /\ gh.pc = "listWorktrees"
  /\ \E registered \in BOOLEAN :
       gh' = IF registered
             THEN [gh EXCEPT
                     !.pc = "removeWorktree",
                     !.removed = Append(@,
                        getWorktreeSpec(GhText.localPath,
                          Get(parseIssueIdFromBranch(Get(gReq.payload).branch,
                                                     gConfig.branchTemplate)),
                          gConfig.branchTemplate).path)]
             ELSE BranchCleanup(gh)
  /\ UNCHANGED <<gConfig, gReq>>
  /\ UNCHANGED <<matchVars, webhookVars, permVars, runVars, keyVars, configVars, worktreeVars, clientVars, rateVars>>

\* removeWorktreeSafe settles (a failure is logged)
WorktreeRemoveSettles ==
  /\ gh.pc = "removeWorktree"
  /\ gh' = BranchCleanup(gh)
  /\ UNCHANGED <<gConfig, gReq>>
  /\ UNCHANGED <<matchVars, webhookVars, permVars, runVars, keyVars, configVars, worktreeVars, clientVars, rateVars>>

\* deleteRemoteBranchSafe settles (a failure is logged)
BranchDeleteSettles ==
  /\ gh.pc = "deleteBranch"
  /\ gh' = [gh EXCEPT !.pc = "done", !.response = "ok: merged"]
  /\ UNCHANGED <<gConfig, gReq>>
  /\ UNCHANGED <<matchVars, webhookVars, permVars, runVars, keyVars, configVars, worktreeVars, clientVars, rateVars>>

\* the handler has answered; the delivery is made again with its id and body,
\* this time with the signature of the configured secret
Redelivered ==
  /\ gh.pc = "done"
  /\ gh.round = 1
  /\ gReq.deliveryId # None
  /\ gReq' = [gReq EXCEPT !.signatureValid = TRUE]
  /\ gh' = [gh EXCEPT !.pc = "start", !.response = "", !.round = 2]
  /\ UNCHANGED gConfig
  /\ UNCHANGED <<matchVars, webhookVars, permVars, runVars, keyVars, configVars, worktreeVars, clientVars, rateVars>>

GithubNext ==
  \/ GithubHandle
  \/ Redelivered
  \/ WorktreeListed
  \/ WorktreeRemoveSettles
  \/ BranchDeleteSettles

GithubSpec == GithubInit /\ [][GithubNext]_vars

\* the branch is the template with a non-empty issue id in place of {ISSUE_ID}
BranchIsOfTemplate(branch, template) ==
  /\ ContainsText(template, GhText.placeholder)
  /\ LET prefix == TemplateParts(template).prefix
         suffix == TemplateParts(template).suffix
     IN /\ Len(branch) > Len(prefix) + Len(suffix)
        /\ SubSeq(branch, 1, Len(prefix)) = prefix
        /\ SubSeq(branch, Len(branch) - Len(suffix) + 1, Len(branch)) = suffix

\* C24: the handler asks git to remove a worktree or to delete a remote branch
\* only for a request with a valid signature that reports a merged, closed pull
\* request of a configured repository whose head branch is of the form of
\* worktree.branchTemplate, and only with GitHub integration and cleanup enabled.
C24_CleanupOnlyForMergedTemplateBranch ==
  (gh # <<>> /\ (gh.removed # <<>> \/ gh.deleted # <<>>)) =>
    /\ gConfig.enabled /\ gConfig.cleanupEnabled
    /\ gh.firstVerified
    /\ gReq.event = "pull_request"
    /\ gReq.payload # None
    /\ Get(gReq.payload).action = "closed"
    /\ Get(gReq.payload).merged
    /\ ToLowerCase(Get(gReq.payload).repoFullName) = ToLowerCase(GhText.repoConfigured)
    /\ BranchIsOfTemplate(Get(gReq.payload).branch, gConfig.branchTemplate)

\* ------------------------------------------------ background workflows

MaxWorkflows == 3

\* issue.identifier of the issues the deliveries are about
IssueRefs == {<<"E", "N", "G", "-", "1">>, <<"E", "N", "G", "-", "2">>}

NoWorkflow == [pc |-> "none", issueRef |-> <<>>, path |-> <<>>]

WorktreeInit ==
  /\ wf = [i \in 1..MaxWorkflows |-> NoWorkflow]
  /\ MatchIdle /\ WebhookIdle /\ PermIdle /\ RunIdle /\ KeyIdle /\ ConfigIdle /\ GithubIdle /\ ClientIdle /\ RateIdle

\* a delivery that is no duplicate matched a trigger with action 'quick'; the
\* handler posted the acknowledgment and called processSandboxRequest, which it
\* does not await
StartWorkflow(i, issueRef) ==
  /\ wf[i].pc = "none"
  /\ \A j \in 1..(i - 1) : wf[j].pc # "none"
  /\ wf' = [wf EXCEPT ![i] = [pc |-> "fetch", issueRef |-> issueRef, path |-> <<>>]]
  /\ UNCHANGED <<matchVars, webhookVars, permVars, runVars, keyVars, configVars, githubVars, clientVars, rateVars>>

\* processSandboxRequest up to its call of createWorktree: the issue was fetched;
\* without a task description the workflow ends, else createWorktree starts on
\* the path of getWorktreeSpec
FetchIssue(i) ==
  /\ wf[i].pc = "fetch"
  /\ \E hasDescription \in BOOLEAN :
       wf' = [wf EXCEPT ![i] =
                IF hasDescription
                THEN [wf[i] EXCEPT
                        !.pc = "createWorktree",
                        !.path = getWorktreeSpec(GhText.localPath, wf[i].issueRef,
                                                 GhText.templateDefault).path]
                ELSE [wf[i] EXCEPT !.pc = "done"]]
  /\ UNCHANGED <<matchVars, webhookVars, permVars, runVars, keyVars, configVars, githubVars, clientVars, rateVars>>

\* createWorktree (git worktree remove --force, rm -rf, prune, git worktree add -B)
\* settles; on success the agent is started in worktree.path
CreateWorktreeSettles(i) ==
  /\ wf[i].pc = "createWorktree"
  /\ \E success \in BOOLEAN :
       wf' = [wf EXCEPT ![i].pc = IF success THEN "agent" ELSE "done"]
  /\ UNCHANGED <<matchVars, webhookVars, permVars, runVars, keyVars, configVars, githubVars, clientVars, rateVars>>

\* runSandboxAgentWorkflowDirect returns
AgentReturns(i) ==
  /\ wf[i].pc = "agent"
  /\ wf' = [wf EXCEPT ![i].pc = "done"]
  /\ UNCHANGED <<matchVars, webhookVars, permVars, runVars, keyVars, configVars, githubVars, clientVars, rateVars>>

WorktreeNext ==
  \/ \E i \in 1..MaxWorkflows, issueRef \in IssueRefs : StartWorkflow(i, issueRef)
  \/ \E i \in 1..MaxWorkflows : FetchIssue(i)
  \/ \E i \in 1..MaxWorkflows : CreateWorktreeSettles(i)
  \/ \E i \in 1..MaxWorkflows : AgentReturns(i)

WorktreeSpec == WorktreeInit /\ [][WorktreeNext]_vars

\* workflow i is creating or resetting its worktree, or its agent runs in it
UsesWorktree(i) == wf[i].pc \in {"createWorktree", "agent"}

\* C21: no two workflows that are active at the same time create, reset or run
\* an agent in the same worktree path.
C21_ActiveRunsUseDistinctPaths ==
  wf # <<>> =>
    \A i, j \in 1..MaxWorkflows :
      (i # j /\ UsesWorktree(i) /\ UsesWorktree(j)) => wf[i].path # wf[j].path

\* ------------------------------------------------ agent runner: the turn

\* createSession resolved: the deadline timer is set right after it
SessionCreated == run.timer # "unset"

\* C31: in a run whose session was created streamTurn is called exactly once,
\* by the step that follows createSession, and in no other run and at no other
\* step, whatever stream errors and polling rounds follow.
C31_TurnSubmittedOnce ==
  /\ [](run.turns = IF SessionCreated THEN 1 ELSE 0)
  /\ [][run'.turns # run.turns => run.pc = "createSession"]_vars

C31_Witness ==
  /\ run.turns = 1
  /\ run.fellBack
  /\ run.backedOff
  /\ run.pc = "page"

\* ------------------------------------------------ agent runner: stream errors

\* connection-refused, timeout and abort errors
TransientErrors == {Errors.unable, Errors.refused, Errors.timeout, Errors.abort}

\* the step catches an error around the for-await over the stream
CatchesStreamError == run.streamError = None /\ run'.streamError # None

\* C32: an error caught around the stream before the deadline fired leaves
\* runSandboxAgent as an exception, without a fallback to polling, when it is
\* not transient; a transient one starts the fallback, and is never thrown,
\* before the deadline or after it.
C32_OnlyTransientStreamErrorsFallBack ==
  [][CatchesStreamError =>
       LET error == Get(run'.streamError)
       IN /\ (~run.timedOut /\ error \notin TransientErrors)
               => /\ run'.pc = "threw"
                  /\ run'.thrown = Some(error)
                  /\ run'.fellBack = FALSE
          /\ (~run.timedOut /\ error \in TransientErrors)
               => run'.fellBack /\ run'.mode = "poll"
          /\ (error \in TransientErrors) => run'.pc # "threw"]_vars

\* an event was handled, then the stream failed with a server error
C32_Witness ==
  /\ run.pc = "threw"
  /\ run.streamError = Some(Errors.fatal)
  /\ run.handled # <<>>

\* ------------------------------------------------ agent runner: permission replies

\* the handled permission.requested events that carry their data
HandledPermissionRequests ==
  SelectSeq(run.handled,
            LAMBDA i : rLog[i].type = "permission.requested" /\ rLog[i].data # None)

\* the replies the runtime has taken for permission requests
PermissionReplies == SelectSeq(run.replies, LAMBDA reply : reply.call = "replyPermission")

\* C33: while the run goes on or has returned before its deadline, every handled
\* permission request but the one whose reply is being awaited has been answered
\* exactly once, in order, with the verdict of the run's policy for it.
C33_EveryPermissionAnsweredOnce ==
  (run.pc \notin {"idle", "threw", "replyPermission"} /\ ~run.timedOut) =>
    /\ Len(PermissionReplies) = Len(HandledPermissionRequests)
    /\ \A k \in 1..Len(PermissionReplies) :
         LET data == rLog[HandledPermissionRequests[k]].data
         IN /\ PermissionReplies[k].id = data.permission_id
            /\ PermissionReplies[k].reply =
                 decidePermissionReply(data, rOptions.permissionPolicy)

\* ------------------------------------------------ agent runner: filesModified

\* the parts of the item.completed events handled so far, in order
RECURSIVE PartsHandled(_)
PartsHandled(indexes) ==
  IF indexes = <<>> THEN <<>>
  ELSE LET event == rLog[Head(indexes)]
       IN (IF event.type = "item.completed" /\ event.data.item # None
           THEN Get(event.data.item).content ELSE <<>>) \o PartsHandled(Tail(indexes))

\* the paths of the file references with action write or patch, in order
WrittenPaths ==
  LET refs == SelectSeq(PartsHandled(run.handled),
                        LAMBDA part : part.type = "file_ref"
                                      /\ part.action \in {"write", "patch"})
  IN [i \in 1..Len(refs) |-> refs[i].path]

\* C34: filesModified is at every point the sequence of the distinct paths of the
\* write and patch file references of the item.completed events handled so far,
\* in the order of their first occurrence, each path once.
C34_FilesModifiedAreDistinctWrittenPaths ==
  LET firsts == { i \in 1..Len(WrittenPaths) :
                    \A j \in 1..(i - 1) : WrittenPaths[j] # WrittenPaths[i] }
      Rank(i) == Cardinality({ j \in firsts : j <= i })
  IN /\ Len(run.filesModified) = Cardinality(firsts)
     /\ \A i \in firsts : run.filesModified[Rank(i)] = WrittenPaths[i]

\* a patched path, then a written one, then the patched path again
C34_Witness ==
  /\ run.filesModified = <<Text.pathB, Text.pathA>>
  /\ Len(WrittenPaths) > 2

\* ------------------------------------------------ agent runner: finalization

\* a git command of finalizeResult failed in the inspected workspace
InspectionFailed ==
  /\ run.inspected # None
  /\ LET workspace == Get(run.inspected)
     IN \/ workspace.status = None
        \/ /\ UncommittedPaths(workspace) = <<>>
           /\ workspace.symbolicRef # None
           /\ workspace.diff = None

\* C39: the returned result has the success, sessionId, reason, answer and error
\* of the result that was handed to finalizeResult, and is that result when the
\* inspection of the workspace failed.
C39_FinalizeKeepsOutcome ==
  (run.pc = "returned") =>
    LET given == Get(run.finalizing)
        final == Get(run.result)
    IN /\ final.success = given.success
       /\ final.sessionId = given.sessionId
       /\ final.reason = given.reason
       /\ final.answer = given.answer
       /\ final.error = given.error
       /\ InspectionFailed => final = given

\* a git command failed for a run that the agent ended as completed
C39_Witness ==
  /\ run.pc = "returned"
  /\ InspectionFailed
  /\ Get(run.result).success
  /\ run.handled # <<>>

\* ------------------------------------------------ dedup map: eviction

\* the keys the step removes from the dedup map
Evicted == DOMAIN processedEvents \ DOMAIN processedEvents'

\* C35: keys leave the dedup map only in a step that finds more entries in it
\* than the sweep threshold, and only keys recorded more than one window ago;
\* so of two calls with one key made less than a window apart, whatever other
\* keys were checked in between, at most one is answered "not seen".
C35_SweepRemovesOnlyExpired ==
  /\ [][Evicted # {} =>
          /\ Cardinality(DOMAIN processedEvents) > DEDUP_SWEEP_SIZE
          /\ \A k \in Evicted : now - processedEvents[k] > DEDUP_WINDOW_MS]_vars
  /\ [](\A i \in 1..Len(checks) : \A j \in (i + 1)..Len(checks) :
          (checks[i].key = checks[j].key /\ ~checks[i].seen /\ ~checks[j].seen)
            => checks[j].at - checks[i].at >= DEDUP_WINDOW_MS)

\* a key that was accepted has been swept, while a younger one is kept
C35_Witness ==
  /\ \E i \in 1..Len(checks) :
       ~checks[i].seen /\ checks[i].key \notin DOMAIN processedEvents
  /\ \E k \in DOMAIN processedEvents : now - processedEvents[k] < DEDUP_WINDOW_MS

\* ------------------------------------------------ dedup: different events

\* the two notifications report one event: same type, action and data.id
SameEvent(n1, n2) ==
  n1.type = n2.type /\ n1.action = n2.action /\ n1.dataId = n2.dataId

\* C37: a request is answered as an ignored duplicate only if a request that
\* reports the same event (type, action, data.id) passed the dedup check before.
C37_OnlySameEventSuppressed ==
  \A r1 \in 1..Len(requests) :
    requests[r1].response = "ignored: Duplicate event" =>
      \E r2 \in 1..Len(requests) :
        /\ r2 # r1
        /\ requests[r2].passedDedup
        /\ requests[r2].at <= requests[r1].at
        /\ SameEvent(requests[r1].n, requests[r2].n)

\* ------------------------------------------------ GitHub webhook: delivery ids

\* C36 (GitHub endpoint): a delivery id enters the dedup map only in the handling
\* of a request whose signature is valid, and a validly signed delivery is
\* answered as a duplicate only if a verified request recorded its id.
C36_DeliveryRecordedOnlyWhenVerified ==
  /\ [][(gh # <<>> /\ gh'.deliveries # gh.deliveries) => gReq.signatureValid]_vars
  /\ []((gh # <<>> /\ gh.round = 2 /\ gh.response = "ignored: duplicate_delivery")
          => gh.firstVerified)

\* ------------------------------------------------ getClient: the client cache

MaxCallers == 3

\* JSON.stringify(config.connection ?? {}) of the callers
ConnectionKeys == {"k1", "k2"}

IdleCaller == [pc |-> "idle", key |-> "", client |-> None]

ClientInit ==
  /\ gc = [client |-> None, cachedKey |-> None, created |-> <<>>, disposals |-> 0,
           callers |-> [i \in 1..MaxCallers |-> IdleCaller]]
  /\ MatchIdle /\ WebhookIdle /\ PermIdle /\ RunIdle
  /\ KeyIdle /\ ConfigIdle /\ GithubIdle /\ WorktreeIdle /\ RateIdle

\* what getClient and disposeSandboxClient leave alone
ClientFrame ==
  /\ UNCHANGED <<matchVars, webhookVars, permVars, runVars>>
  /\ UNCHANGED <<keyVars, configVars, githubVars, worktreeVars, rateVars>>

\* a run or a health check calls getClient: up to `await SandboxAgent.connect(...)`
\* or `await SandboxAgent.start(...)`, or to `return client`
GetClientCalled(i, connectionKey) ==
  /\ gc.callers[i].pc = "idle"
  /\ \A j \in 1..(i - 1) : gc.callers[j].pc # "idle"
  /\ gc' = IF gc.client = None \/ gc.cachedKey # Some(connectionKey)
           THEN [gc EXCEPT !.created = Append(@, connectionKey),
                           !.callers[i] = [pc |-> "connecting", key |-> connectionKey,
                                           client |-> Some(Len(gc.created) + 1)]]
           ELSE [gc EXCEPT !.callers[i] = [pc |-> "has", key |-> connectionKey,
                                           client |-> gc.client]]
  /\ ClientFrame

\* connect/start resolves: `client = ...; cachedKey = connectionKey; return client`
ConnectResolves(i) ==
  /\ gc.callers[i].pc = "connecting"
  /\ gc' = [gc EXCEPT !.client = gc.callers[i].client,
                      !.cachedKey = Some(gc.callers[i].key),
                      !.callers[i].pc = "has"]
  /\ ClientFrame

\* connect/start rejects: getClient throws
ConnectFails(i) ==
  /\ gc.callers[i].pc = "connecting"
  /\ gc' = [gc EXCEPT !.callers[i] = [@ EXCEPT !.pc = "failed", !.client = None]]
  /\ ClientFrame

\* disposeSandboxClient, when a client is cached
DisposeSandboxClient ==
  /\ gc.client # None
  /\ gc.disposals = 0
  /\ gc' = [gc EXCEPT !.client = None, !.disposals = @ + 1]
  /\ ClientFrame

ClientNext ==
  \/ \E i \in 1..MaxCallers, connectionKey \in ConnectionKeys :
       GetClientCalled(i, connectionKey)
  \/ \E i \in 1..MaxCallers : ConnectResolves(i)
  \/ \E i \in 1..MaxCallers : ConnectFails(i)
  \/ DisposeSandboxClient

ClientSpec == ClientInit /\ [][ClientNext]_vars

\* the callers that have called getClient
Callers == { i \in 1..MaxCallers : gc.callers[i].pc # "idle" }

\* C38: while nothing was disposed and every caller used the same connection
\* settings, connect/start was invoked at most once and the callers that hold a
\* client hold the same one.
C38_OneClientPerConnection ==
  (gc # <<>> /\ gc.disposals = 0
     /\ \A i \in Callers : \A j \in Callers : gc.callers[i].key = gc.callers[j].key) =>
    /\ Len(gc.created) <= 1
    /\ \A i \in Callers : \A j \in Callers :
         (gc.callers[i].pc = "has" /\ gc.callers[j].pc = "has")
           => gc.callers[i].client = gc.callers[j].client

\* ------------------------------------------------ rate limiter

RateTickMs == 30000
MaxRateTime == 120000
MaxRateRequests == 4

\* config.server.rateLimit
RateLimitOptions == [enabled : BOOLEAN, windowMs : {30000, 60000}, max : {1, 2}]

\* the headers of a request; c.req.raw.url is the same for all of them
RateRequests == [forwardedFor : {None, Some("1.1.1.1")}, realIp : {None, Some("2.2.2.2")}]

\* c.req.header('x-forwarded-for') || c.req.header('x-real-ip') || c.req.raw?.url || 'unknown'
RateKey(req) ==
  IF req.forwardedFor # None THEN Get(req.forwardedFor)
  ELSE IF req.realIp # None THEN Get(req.realIp)
  ELSE "http://host/webhook"

\* variant: a record is replaced only after its reset time
rateLimitMiddleware_LateReset(state, key, t, options) ==
  IF ~options.enabled THEN [state |-> state, passed |-> TRUE]
  ELSE IF key \notin DOMAIN state \/ state[key].resetAt < t
  THEN [state |-> [k \in DOMAIN state \cup {key} |->
                     IF k = key THEN [count |-> 1, resetAt |-> t + options.windowMs]
                     ELSE state[k]],
        passed |-> TRUE]
  ELSE [state |-> [state EXCEPT ![key].count = @ + 1],
        passed |-> ~(state[key].count + 1 > options.max)]

\* the middleware for one request: the Map afterwards, and whether next() ran
rateLimitMiddleware(state, key, t, options) ==
  IF ~options.enabled THEN [state |-> state, passed |-> TRUE]
  ELSE IF key \notin DOMAIN state \/ state[key].resetAt <= t
  THEN [state |-> [k \in DOMAIN state \cup {key} |->
                     IF k = key THEN [count |-> 1, resetAt |-> t + options.windowMs]
                     ELSE state[k]],
        passed |-> TRUE]
  ELSE [state |-> [state EXCEPT ![key].count = @ + 1],
        passed |-> ~(state[key].count + 1 > options.max)]

RateFrame ==
  /\ UNCHANGED <<matchVars, webhookVars, permVars, runVars>>
  /\ UNCHANGED <<keyVars, configVars, githubVars, worktreeVars, clientVars>>

RateInit ==
  /\ \E options \in RateLimitOptions :
       rl = [now |-> RateTickMs, options |-> options, state |-> <<>>, log |-> <<>>]
  /\ MatchIdle /\ WebhookIdle /\ PermIdle /\ RunIdle
  /\ KeyIdle /\ ConfigIdle /\ GithubIdle /\ WorktreeIdle /\ ClientIdle

\* a POST to /webhook or /github-webhook goes through the middleware
RateRequest(req) ==
  /\ Len(rl.log) < MaxRateRequests
  /\ LET after == rateLimitMiddleware(rl.state, RateKey(req), rl.now, rl.options)
     IN rl' = [rl EXCEPT !.state = after.state,
                         !.log = Append(@, [key |-> RateKey(req), at |-> rl.now,
                                            passed |-> after.passed])]
  /\ RateFrame

RateTick ==
  /\ rl.now + RateTickMs <= MaxRateTime
  /\ rl' = [rl EXCEPT !.now = @ + RateTickMs]
  /\ RateFrame

RateNext ==
  \/ \E req \in RateRequests : RateRequest(req)
  \/ RateTick

RateSpec == RateInit /\ [][RateNext]_vars

\* request i starts a window of its key: it is the key's first request, or it
\* comes at or after the reset time of every window of the key started before
RECURSIVE StartsWindow(_)
StartsWindow(i) ==
  \A j \in 1..(i - 1) :
    (rl.log[j].key = rl.log[i].key /\ StartsWindow(j))
      => rl.log[i].at >= rl.log[j].at + rl.options.windowMs

\* the requests of the key of s made from s on and before the reset time of s
InWindowOf(s) ==
  { i \in s..Len(rl.log) :
      /\ rl.log[i].key = rl.log[s].key
      /\ rl.log[i].at < rl.log[s].at + rl.options.windowMs }

\* C40: with rate limiting enabled, a request that starts a window of its key is
\* passed on and leaves the count of the key at 1; of the requests in a window
\* the first `max` are passed on and every further one is answered 429, so at
\* most `max` requests of a key reach the handler in one window.
C40_AtMostMaxPerWindow ==
  (rl # <<>> /\ rl.options.enabled) =>
    \A s \in 1..Len(rl.log) :
      StartsWindow(s) =>
        /\ rl.log[s].passed
        /\ Cardinality({ i \in InWindowOf(s) : rl.log[i].passed }) <= rl.options.max
        /\ \A i \in InWindowOf(s) :
             rl.log[i].passed <=>
               Cardinality({ j \in InWindowOf(s) : j <= i }) <= rl.options.max
        /\ (InWindowOf(s) = {s} /\ \A i \in (s + 1)..Len(rl.log) : rl.log[i].key # rl.log[s].key)
             => rl.state[rl.log[s].key] =
                  [count |-> 1, resetAt |-> rl.log[s].at + rl.options.windowMs]

\* a key used up its window, was refused, and was passed again at the reset time
C40_Witness ==
  /\ rl # <<>>
  /\ rl.options.enabled
  /\ \E i, j, k \in 1..Len(rl.log) :
       /\ i < j /\ j < k
       /\ rl.log[i].key = rl.log[j].key /\ rl.log[j].key = rl.log[k].key
       /\ rl.log[i].passed /\ ~rl.log[j].passed /\ rl.log[k].passed
       /\ rl.log[k].at = rl.log[i].at + rl.options.windowMs

====
